---- MODULE Spec2Model ----
(***************************************************************************)
(* Model of run_agent_loop, the bounded tool-dispatch loop of              *)
(*   src/Part2_Examples/01_simple_tool_calling.py  (variant "simple")      *)
(*   src/Part2_Examples/05_complete_agent.py       (variant "complete")    *)
(* and of the example programs around it:                                  *)
(*   src/Part1_Examples/langchain_examples/05_memory.py                    *)
(*   src/Part1_Examples/langchain_examples/03_agent_with_tools.py          *)
(*   src/Part2_Examples/05_langgraph_stategraph.py                         *)
(*   src/Part2_Examples/06_persistence_and_hitl.py (example 2)             *)
(*   src/Part2_Examples/02_middleware_example.py   (HistorySummarizer)     *)
(*   src/Part2_Examples/06_langgraph_example.py                            *)
(*   src/Part1_Examples/langgraph_examples/02_workflow.py                  *)
(*   src/langgraph_examples/04_composition.py                              *)
(* Each program has its own variables and its own specification; a         *)
(* specification leaves the other programs' variables where they start.    *)
(*                                                                         *)
(* Text is a sequence of tokens (strings); an f-string is the              *)
(* concatenation of its pieces.  A tool-call id is a natural number n      *)
(* standing for the provider's string "call_n"; the provider hands out a   *)
(* fresh id for every request.  The language model and the tool framework  *)
(* are external: a model call either returns a reply drawn from            *)
(* ModelReplies or raises; tool.invoke validates the argument mapping      *)
(* against the tool's signature and raises when a required key is missing. *)
(***************************************************************************)
EXTENDS Integers, Sequences, FiniteSets, TLC

VARIABLES
    variant,           \* which file's run_agent_loop is executing
    user_query,        \* parameter user_query
    max_iterations,    \* parameter max_iterations
    messages,          \* local list messages (the transcript)
    iteration,         \* loop variable of "for iteration in range(max_iterations)"
    response,          \* local variable response (the last model reply)
    tc_idx,            \* position of "for tool_call in response.tool_calls" (1-based)
    pc,                \* control position; "returned" and "raised" are the two exits
    result,            \* the value returned to the caller, NoResult before the return
    exception,         \* the exception a model call or tool invocation raised, if any
    model_calls,       \* number of model_with_tools.invoke calls started
    tool_invocations,  \* ids of the requests whose tool was invoked, in invocation order
    inflight,          \* the external calls in progress
    next_id            \* next id the provider will hand out

\* Two executions of run_agent_loop on the same inputs, one after the other
VARIABLES
    run,               \* 1 during the first execution, 2 during the second
    script,            \* what each model call of the first execution was shown and came back with
    first_run          \* the outcome of the first execution

loop_vars == <<variant, user_query, max_iterations, messages, iteration, response,
               tc_idx, pc, result, exception, model_calls, tool_invocations,
               inflight, next_id>>

replay_vars == <<run, script, first_run>>

\* 05_memory.py: main runs example_1_basic_memory, example_2_manual_memory and
\* example_3_session_management, in this order
VARIABLES
    store,                 \* module-level dict store: session id -> history
    mem_pc,                \* the example function main is in
    turns,                 \* the turns the example function has still to make
    history,               \* what the prompt's "history" placeholder last held
    conversation_history   \* local list conversation_history of example 2

memory_vars == <<store, mem_pc, turns, history, conversation_history>>

\* 03_agent_with_tools.py: main calls simple_agent twice
VARIABLES
    agent_pc,          \* control position in main and simple_agent
    agent_run,         \* number of simple_agent calls main has made
    agent_query,       \* parameter query of simple_agent
    analysis,          \* analysis.content, the reply to the analysis prompt
    results,           \* local list results
    tool_log,          \* the tool.invoke calls of this execution, in order
    agent_model_calls, \* chain.invoke calls this execution has started
    final_answer,      \* the value simple_agent returns
    previous           \* what the execution before this one did

agent_vars == <<agent_pc, agent_run, agent_query, analysis, results, tool_log,
                agent_model_calls, final_answer, previous>>

\* 05_langgraph_stategraph.py and example 2 of 06_persistence_and_hitl.py: the
\* compiled graph app and the script that invokes it
VARIABLES
    graph_variant,     \* which file's graph is running
    state_messages,    \* state["messages"] of the thread
    node,              \* the node that runs next; "END" and "raised" end the run
    interrupted,       \* app.invoke returned before the node (interrupt_before)
    invokes,           \* app.invoke calls the script has made
    graph_next_id,     \* next id the provider will hand out
    graph_trace        \* what happened on the thread so far, in order

graph_vars == <<graph_variant, state_messages, node, interrupted, invokes,
                graph_next_id, graph_trace>>

\* 02_middleware_example.py: a HistorySummarizer and one call of it
VARIABLES
    summ_pc,           \* "new" before __init__, "constructed", "called" after __call__
    max_messages,      \* self.max_messages
    long_history,      \* the list the caller put under "messages"
    input_data         \* input_data["messages"]

summarizer_vars == <<summ_pc, max_messages, long_history, input_data>>

\* 06_langgraph_example.py: the compiled graph app and one app.invoke
VARIABLES
    step_node,         \* the node that runs next; "END", "raised" and "out_of_steps" end the run
    step_state,        \* the AgentState of the run
    step_trace         \* the nodes that ran, each with step_count on entry

steps_vars == <<step_node, step_state, step_trace>>

\* langgraph_examples/02_workflow.py: the compiled graph app and one app.invoke
VARIABLES
    wf_node,           \* the node that runs next; "END" and "raised" end the run
    wf_state,          \* the WorkflowState of the run
    wf_trace           \* the input of the run, then the nodes that ran, in order

workflow_vars == <<wf_node, wf_state, wf_trace>>

\* langgraph_examples/04_composition.py: the compiled graph app and one app.invoke
VARIABLES
    comp_node,         \* the node that runs next; "END" and "raised" end the run
    comp_state,        \* the ComposedState of the run
    comp_trace         \* the input of the run, then the nodes that ran and the
                       \* model calls they made, in order

composition_vars == <<comp_node, comp_state, comp_trace>>

vars == <<loop_vars, replay_vars, memory_vars, agent_vars, graph_vars,
          summarizer_vars, steps_vars, workflow_vars, composition_vars>>

\* What the steps of one program leave alone
nonloop_vars == <<replay_vars, memory_vars, agent_vars, graph_vars,
                  summarizer_vars, steps_vars, workflow_vars, composition_vars>>
nonreplay_vars == <<memory_vars, agent_vars, graph_vars,
                    summarizer_vars, steps_vars, workflow_vars, composition_vars>>
nonmemory_vars == <<loop_vars, replay_vars, agent_vars, graph_vars,
                    summarizer_vars, steps_vars, workflow_vars, composition_vars>>
nonagent_vars == <<loop_vars, replay_vars, memory_vars, graph_vars,
                   summarizer_vars, steps_vars, workflow_vars, composition_vars>>
nongraph_vars == <<loop_vars, replay_vars, memory_vars, agent_vars,
                   summarizer_vars, steps_vars, workflow_vars, composition_vars>>
nonsummarizer_vars == <<loop_vars, replay_vars, memory_vars, agent_vars, graph_vars,
                        steps_vars, workflow_vars, composition_vars>>
nonsteps_vars == <<loop_vars, replay_vars, memory_vars, agent_vars, graph_vars,
                   summarizer_vars, workflow_vars, composition_vars>>
nonworkflow_vars == <<loop_vars, replay_vars, memory_vars, agent_vars, graph_vars,
                      summarizer_vars, steps_vars, composition_vars>>
noncomposition_vars == <<loop_vars, replay_vars, memory_vars, agent_vars, graph_vars,
                         summarizer_vars, steps_vars, workflow_vars>>

----------------------------------------------------------------------------
(* Bounds *)

MaxIter == 3

MaxRequests == 2

\* Tool requests over one execution when two executions are compared
MaxReplayRequests == 2

----------------------------------------------------------------------------
(* Inputs *)

Variants == {"simple", "complete"}

Queries == {<<"Calculate 2+3">>}

\* Reply texts the scripted model can produce.
Contents == {<<"The result is ", "5">>, <<"Let me use a tool">>}

Expr23 == <<"2", "+", "3">>

Expr10 == <<"1", "/", "0">>

\* The (name, args) pairs the scripted model can request: every tool of the
\* if/elif chain with well-formed arguments, calculate with an expression whose
\* evaluation fails, calculate with a mapping lacking its required key, and a
\* name that no branch matches.
ToolCallChoices ==
    { [name |-> "calculate",   args |-> [expression |-> Expr23]],
      [name |-> "calculate",   args |-> [expression |-> Expr10]],
      [name |-> "calculate",   args |-> [location |-> "Tokyo"]],
      [name |-> "get_weather", args |-> [location |-> "Tokyo"]],
      [name |-> "search_web",  args |-> [query |-> "LangChain"]],
      [name |-> "send_email",  args |-> [query |-> "LangChain"]] }

----------------------------------------------------------------------------
(* Messages *)

NoId == 0

NoResult == <<"<no return value>">>

NoException == [kind |-> "none", id |-> NoId]

HumanMessage(content) ==
    [type |-> "human", content |-> content, tool_calls |-> <<>>, tool_call_id |-> NoId]

AIMessage(content, tool_calls) ==
    [type |-> "ai", content |-> content, tool_calls |-> tool_calls, tool_call_id |-> NoId]

ToolMessage(content, tool_call_id) ==
    [type |-> "tool", content |-> content, tool_calls |-> <<>>,
     tool_call_id |-> tool_call_id]

NoResponse == AIMessage(<<>>, <<>>)

\* The replies the model can give when the provider's next fresh id is `first`
\* and at most `budget` further requests fit the bound.
CallsOf(choice, first) ==
    [i \in 1..Len(choice) |->
        [name |-> choice[i].name, args |-> choice[i].args, id |-> first + i - 1]]

ModelReplies(first, budget) ==
    UNION { { AIMessage(c, CallsOf(ch, first)) :
                c \in Contents, ch \in [1..k -> ToolCallChoices] } : k \in 0..budget }

----------------------------------------------------------------------------
(* The tools *)

\* What the framework's tool.invoke checks before the function body runs: the
\* argument mapping must carry the parameter the signature declares.
RequiredArg(name) ==
    CASE name = "calculate"   -> "expression"
      [] name = "get_weather" -> "location"
      [] name = "search_web"  -> "query"

ValidArgs(name, args) == RequiredArg(name) \in DOMAIN args

\* The whitespace characters that Python's tokenizer does not take as blank
\* space (vertical tab, U+001C..U+001F, U+0085, U+00A0 and U+1680), each with
\* the name SyntaxError's message gives it.
CodePoint ==
    [c \in {"", "", "", "", "", "", " ", " "} |->
        CASE c = "" -> "U+000B"
          [] c = "" -> "U+001C"
          [] c = "" -> "U+001D"
          [] c = "" -> "U+001E"
          [] c = "" -> "U+001F"
          [] c = "" -> "U+0085"
          [] c = " " -> "U+00A0"
          [] c = " " -> "U+1680"]

\* re.match(r"^[0-9+\-*/\s().**]+$", expression).  \s is every whitespace
\* character: blank, tab, newline, carriage return, form feed and the
\* characters of CodePoint; the whitespace characters that cannot be
\* written in a string of this module (U+2000..U+200A, U+2028, U+2029,
\* U+202F, U+205F, U+3000) are outside the alphabet of the model.
AllowedChars ==
    {"0", "1", "2", "3", "4", "5", "6", "7", "8", "9",
     "+", "-", "*", "/", "(", ")", ".",
     " ", "\t", "\n", "\r", "\f"} \cup DOMAIN CodePoint

\* Python's eval on the expressions of the model: a value, or the message of
\* the exception it raises.  It is given for two kinds of expression and has
\* no value for any other.  (1) The expression is written in the characters
\* of AllowedChars (so it holds no NUL, which eval refuses before it reads
\* anything else) and holds a character of CodePoint, and what stands before
\* the first of them is, blanks and tabs aside, a beginning of 2+3 or of 1/0:
\* the tokenizer stops at that character on line 1.  (2) The expression holds none, and is 2+3 or 1/0 with blanks,
\* tabs and form feeds between the tokens, blanks and tabs before them, and
\* after them blanks, tabs and form feeds followed by newlines and carriage
\* returns.
Eval(expression) ==
    LET n == Len(expression)
        IsPrefix(s, t) == Len(s) <= Len(t) /\ SubSeq(t, 1, Len(s)) = s
        bad == {i \in 1..n : expression[i] \in DOMAIN CodePoint}
        stop == CHOOSE i \in bad : \A j \in bad : i <= j
        before == SelectSeq(SubSeq(expression, 1, stop - 1),
                            LAMBDA c : c \notin {" ", "\t"})
        inline == {" ", "\t", "\f"}
        from == {i \in 1..n : expression[i] \notin {" ", "\t"}}
        upto == {i \in 1..n : expression[i] \notin inline \cup {"\n", "\r"}}
        a == CHOOSE i \in from : \A j \in from : i <= j
        z == CHOOSE i \in upto : \A j \in upto : j <= i
        tokens == SelectSeq(SubSeq(expression, a, z), LAMBDA c : c \notin inline)
        wellFormed ==
            /\ bad = {}
            /\ upto # {}
            /\ a \in upto
            /\ \A i \in (z + 1)..n : \A j \in (i + 1)..n :
                    expression[i] \in {"\n", "\r"} => expression[j] \notin inline
        written == \A i \in 1..n : expression[i] \in AllowedChars
    IN CASE /\ written
            /\ bad # {}
            /\ IsPrefix(before, Expr23) \/ IsPrefix(before, Expr10) ->
                [ok |-> FALSE,
                 text |-> <<"invalid non-printable character ",
                            CodePoint[expression[stop]], " (<string>, line 1)">>]
         [] wellFormed /\ tokens = Expr23 -> [ok |-> TRUE,  text |-> <<"5">>]
         [] wellFormed /\ tokens = Expr10 -> [ok |-> FALSE, text |-> <<"division by zero">>]

MatchesAllowed(expression) ==
    /\ Len(expression) > 0
    /\ \A i \in 1..Len(expression) : expression[i] \in AllowedChars

calculate_simple(expression) ==
    IF Eval(expression).ok
    THEN Eval(expression).text
    ELSE <<"Error calculating: ">> \o Eval(expression).text

calculate_complete(expression) ==
    IF ~MatchesAllowed(expression)
    THEN <<"Error: Invalid characters in expression">>
    ELSE IF Eval(expression).ok
         THEN Eval(expression).text
         ELSE <<"Error: ">> \o Eval(expression).text

\* The characters of a text, one string each
Chars(text) == {SubSeq(text, i, i) : i \in 1..Len(text)}

\* What str.lower() knows of the characters that a string of this module can
\* hold.  upper and lower are parallel: every character that lower() changes
\* and whose image can be written here, and at the same place its image.
\* unwritten: the characters that lower() changes into one that cannot be
\* written here.  cased: the characters that are cased and not
\* case-ignorable; ignorable: the case-ignorable ones.
Casing ==
    LET upper ==
            "ABCDEFGHIJKLMNOPQRSTUVWXYZÀÁÂÃÄÅÆÇÈÉÊËÌÍÎÏÐÑÒÓÔÕÖØÙÚÛÜÝÞƂƄƇƋ" \o
            "ƎƑƘƠƢƤƦƧƩƬƮƯƱƲƳƵƷƸƼǄǅǇǈǊǋǍǏǑǓǕǗǙǛǞǠǢǤǦǨǪǬǮǱǲǴǶǷǸǺǼǾΆΈΉΊΌΎΏΑΒ" \o
            "ΓΔΕΖΗΘΙΚΛΜΝΞΟΠΡΣΤΥΦΧΨΩΪΫϏϘϚϜϞϠϢϤϦϨϪϬϮϴϷϹϺҀҊҌҎҐҒҔҖҘҚҜҞҠҢҤҦҨҪҬ" \o
            "ҮҰҲҴҶҸҺҼҾӀӁӃӅӇӉӋӍӐӒӔӖӘӚӜӞӠӢӤӦӨӪӬӮӰӲӴӶӸӺӼӾᎰᎱᎲᎳᎴᎵᎶᎷᎸᎹᎺᎻᎼᎽᎾᎿᏀᏁᏂ" \o
            "ᏃᏄᏅᏆᏇᏈᏉᏊᏋᏌᏍᏎᏏᏐᏑᏒᏓᏔᏕᏖᏗᏘᏙᏚᏛᏜᏝᏞᏟᏠᏡᏢᏣᏤᏥᏦᏧᏨᏩᏪᏫᏬᏭᏮᏯᏰᏱᏲᏳᏴᏵᲐᲑᲒᲓᲔᲕᲖᲗᲘ" \o
            "ᲙᲚᲛᲜᲝᲞᲟᲠᲡᲢᲣᲤᲥᲦᲧᲨᲩᲪᲫᲬᲭᲮᲯᲰᲱᲲᲳᲴᲵᲶᲷᲸᲹᲺᲽᲾᲿẀẂẄẆẈẊẌẎẐẒẔẞẠẢẤẦẨẪẬẮẰẲẴ" \o
            "ẶẸẺẼẾỀỂỄỆỈỊỌỎỐỒỔỖỘỚỜỞỠỢỤỦỨỪỬỮỰỲỴỶỸỺỼỾᾈᾉᾊᾋᾌᾍᾎᾏᾘᾙᾚᾛᾜᾝᾞᾟᾨᾩᾪᾫᾬᾭᾮ" \o
            "ᾯᾸᾹᾼῌῘῙῨῩῬῼↃⒶⒷⒸⒹⒺⒻⒼⒽⒾⒿⓀⓁⓂⓃⓄⓅⓆⓇⓈⓉⓊⓋⓌⓍⓎⓏⲀⲂⲄⲆⲈⲊⲌⲎⲐⲒⲔⲖⲘⲚⲜⲞⲠⲢⲤⲦⲨⲪ" \o
            "ⲬⲮⲰⲲⲴⲶⲸⲺⲼⲾⳀⳂⳄⳆⳈⳊⳌⳎⳐⳒⳔⳖⳘⳚⳜⳞⳠⳢⳫⳭⳲꚀꚂꚄꚆꚈꚊꚌꚎꚐꚒꚔꚖꚘꚚꞀꞂꞄꞆꞋꞐꞒꞖꞘꞚꞜꞞꞠꞢꞤ" \o
            "ꞦꞨꞰꞱꞲꞴꞶꞸꞺꞼꞾꟀꟂꟄꟅꟆꟇꟉꟐꟖꟘꟵ"
        lower ==
            "abcdefghijklmnopqrstuvwxyzàáâãäåæçèéêëìíîïðñòóôõöøùúûüýþƃƅƈƌ" \o
            "ǝƒƙơƣƥʀƨʃƭʈưʊʋƴƶʒƹƽǆǆǉǉǌǌǎǐǒǔǖǘǚǜǟǡǣǥǧǩǫǭǯǳǳǵƕƿǹǻǽǿάέήίόύώαβ" \o
            "γδεζηθικλμνξοπρστυφχψωϊϋϗϙϛϝϟϡϣϥϧϩϫϭϯθϸϲϻҁҋҍҏґғҕҗҙқҝҟҡңҥҧҩҫҭ" \o
            "үұҳҵҷҹһҽҿӏӂӄӆӈӊӌӎӑӓӕӗәӛӝӟӡӣӥӧөӫӭӯӱӳӵӷӹӻӽӿꮀꮁꮂꮃꮄꮅꮆꮇꮈꮉꮊꮋꮌꮍꮎꮏꮐꮑꮒ" \o
            "ꮓꮔꮕꮖꮗꮘꮙꮚꮛꮜꮝꮞꮟꮠꮡꮢꮣꮤꮥꮦꮧꮨꮩꮪꮫꮬꮭꮮꮯꮰꮱꮲꮳꮴꮵꮶꮷꮸꮹꮺꮻꮼꮽꮾꮿᏸᏹᏺᏻᏼᏽაბგდევზთი" \o
            "კლმნოპჟრსტუფქღყშჩცძწჭხჯჰჱჲჳჴჵჶჷჸჹჺჽჾჿẁẃẅẇẉẋẍẏẑẓẕßạảấầẩẫậắằẳẵ" \o
            "ặẹẻẽếềểễệỉịọỏốồổỗộớờởỡợụủứừửữựỳỵỷỹỻỽỿᾀᾁᾂᾃᾄᾅᾆᾇᾐᾑᾒᾓᾔᾕᾖᾗᾠᾡᾢᾣᾤᾥᾦ" \o
            "ᾧᾰᾱᾳῃῐῑῠῡῥῳↄⓐⓑⓒⓓⓔⓕⓖⓗⓘⓙⓚⓛⓜⓝⓞⓟⓠⓡⓢⓣⓤⓥⓦⓧⓨⓩⲁⲃⲅⲇⲉⲋⲍⲏⲑⲓⲕⲗⲙⲛⲝⲟⲡⲣⲥⲧⲩⲫ" \o
            "ⲭⲯⲱⲳⲵⲷⲹⲻⲽⲿⳁⳃⳅⳇⳉⳋⳍⳏⳑⳓⳕⳗⳙⳛⳝⳟⳡⳣⳬⳮⳳꚁꚃꚅꚇꚉꚋꚍꚏꚑꚓꚕꚗꚙꚛꞁꞃꞅꞇꞌꞑꞓꞗꞙꞛꞝꞟꞡꞣꞥ" \o
            "ꞧꞩʞʇʝꞵꞷꞹꞻꞽꞿꟁꟃꞔʂᶎꟈꟊꟑꟗꟙꟶ"
        at == [k \in 1..Len(upper) |-> SubSeq(upper, k, k)]
    IN  [lower |-> [c \in Chars(upper) |->
                        LET k == CHOOSE k \in 1..Len(upper) : at[k] = c
                        IN  SubSeq(lower, k, k)],
         unwritten |-> Chars(
            "ƁƆƉƊƏƐƓƔƖƗƜƝƟϽϾϿႠႡႢႣႤႥႦႧႨႩႪႫႬႭႮႯႰႱႲႳႴႵႶႷႸႹႺႻႼႽႾႿჀჁჂჃჄჅჇჍᎠᎡᎢᎣ" \o
            "ᎤᎥᎦᎧᎨᎩᎪᎫᎬᎭᎮᎯᾺΆῈΈῊΉῚΊῪΎῸΌῺΏꞍꞪꞫꞬꞭꞮꞳ"),
         cased |-> Chars(
            "ABCDEFGHIJKLMNOPQRSTUVWXYZabcdefghijklmnopqrstuvwxyzªµºÀÁÂÃÄ" \o
            "ÅÆÇÈÉÊËÌÍÎÏÐÑÒÓÔÕÖØÙÚÛÜÝÞßàáâãäåæçèéêëìíîïðñòóôõöøùúûüýþÿƀƁƂ" \o
            "ƃƄƅƆƇƈƉƊƋƌƍƎƏƐƑƒƓƔƕƖƗƘƙƚƛƜƝƞƟƠơƢƣƤƥƦƧƨƩƪƫƬƭƮƯưƱƲƳƴƵƶƷƸƹƺƼƽƾƿ" \o
            "ǄǅǆǇǈǉǊǋǌǍǎǏǐǑǒǓǔǕǖǗǘǙǚǛǜǝǞǟǠǡǢǣǤǥǦǧǨǩǪǫǬǭǮǯǰǱǲǳǴǵǶǷǸǹǺǻǼǽǾǿ" \o
            "ʀʁʂʃʄʅʆʇʈʉʊʋʌʍʎʏʐʑʒʓʕʖʗʘʙʚʛʜʝʞʟʠʡʢʣʤʥʦʧʨʩʪʫʬʭʮʯΆΈΉΊΌΎΏΐΑΒΓΔΕ" \o
            "ΖΗΘΙΚΛΜΝΞΟΠΡΣΤΥΦΧΨΩΪΫάέήίΰαβγδεζηθικλμνξοπρςστυφχψωϊϋόύώϏϐϑϒ" \o
            "ϓϔϕϖϗϘϙϚϛϜϝϞϟϠϡϢϣϤϥϦϧϨϩϪϫϬϭϮϯϰϱϲϳϴϵϷϸϹϺϻϼϽϾϿҀҁҊҋҌҍҎҏҐґҒғҔҕҖҗ" \o
            "ҘҙҚқҜҝҞҟҠҡҢңҤҥҦҧҨҩҪҫҬҭҮүҰұҲҳҴҵҶҷҸҹҺһҼҽҾҿӀӁӂӃӄӅӆӇӈӉӊӋӌӍӎӏӐӑӒӓ" \o
            "ӔӕӖӗӘәӚӛӜӝӞӟӠӡӢӣӤӥӦӧӨөӪӫӬӭӮӯӰӱӲӳӴӵӶӷӸӹӺӻӼӽӾӿրցւփքօֆևֈႠႡႢႣႤႥႦ" \o
            "ႧႨႩႪႫႬႭႮႯႰႱႲႳႴႵႶႷႸႹႺႻႼႽႾႿჀჁჂჃჄჅჇჍაბგდევზთიკლმნოპჟრსტუფქღყშჩც" \o
            "ძწჭხჯჰჱჲჳჴჵჶჷჸჹჺჽჾჿᎠᎡᎢᎣᎤᎥᎦᎧᎨᎩᎪᎫᎬᎭᎮᎯᎰᎱᎲᎳᎴᎵᎶᎷᎸᎹᎺᎻᎼᎽᎾᎿᏀᏁᏂᏃᏄᏅᏆᏇᏈ" \o
            "ᏉᏊᏋᏌᏍᏎᏏᏐᏑᏒᏓᏔᏕᏖᏗᏘᏙᏚᏛᏜᏝᏞᏟᏠᏡᏢᏣᏤᏥᏦᏧᏨᏩᏪᏫᏬᏭᏮᏯᏰᏱᏲᏳᏴᏵᏸᏹᏺᏻᏼᏽᲀᲁᲂᲃᲄᲅᲆᲇᲈ" \o
            "ᲐᲑᲒᲓᲔᲕᲖᲗᲘᲙᲚᲛᲜᲝᲞᲟᲠᲡᲢᲣᲤᲥᲦᲧᲨᲩᲪᲫᲬᲭᲮᲯᲰᲱᲲᲳᲴᲵᲶᲷᲸᲹᲺᲽᲾᲿᶀᶁᶂᶃᶄᶅᶆᶇᶈᶉᶊᶋᶌᶍ" \o
            "ᶎᶏᶐᶑᶒᶓᶔᶕᶖᶗᶘᶙᶚẀẁẂẃẄẅẆẇẈẉẊẋẌẍẎẏẐẑẒẓẔẕẖẗẘẙẚẛẜẝẞẟẠạẢảẤấẦầẨẩẪẫẬậẮ" \o
            "ắẰằẲẳẴẵẶặẸẹẺẻẼẽẾếỀềỂểỄễỆệỈỉỊịỌọỎỏỐốỒồỔổỖỗỘộỚớỜờỞởỠỡỢợỤụỦủỨứỪ" \o
            "ừỬửỮữỰựỲỳỴỵỶỷỸỹỺỻỼỽỾỿᾀᾁᾂᾃᾄᾅᾆᾇᾈᾉᾊᾋᾌᾍᾎᾏᾐᾑᾒᾓᾔᾕᾖᾗᾘᾙᾚᾛᾜᾝᾞᾟᾠᾡᾢᾣᾤᾥᾦ" \o
            "ᾧᾨᾩᾪᾫᾬᾭᾮᾯᾰᾱᾲᾳᾴᾶᾷᾸᾹᾺΆᾼιῂῃῄῆῇῈΈῊΉῌῐῑῒΐῖῗῘῙῚΊῠῡῢΰῤῥῦῧῨῩῪΎῬῲῳῴῶῷ" \o
            "ῸΌῺΏῼↃↄⒶⒷⒸⒹⒺⒻⒼⒽⒾⒿⓀⓁⓂⓃⓄⓅⓆⓇⓈⓉⓊⓋⓌⓍⓎⓏⓐⓑⓒⓓⓔⓕⓖⓗⓘⓙⓚⓛⓜⓝⓞⓟⓠⓡⓢⓣⓤⓥⓦⓧⓨⓩⲀ" \o
            "ⲁⲂⲃⲄⲅⲆⲇⲈⲉⲊⲋⲌⲍⲎⲏⲐⲑⲒⲓⲔⲕⲖⲗⲘⲙⲚⲛⲜⲝⲞⲟⲠⲡⲢⲣⲤⲥⲦⲧⲨⲩⲪⲫⲬⲭⲮⲯⲰⲱⲲⲳⲴⲵⲶⲷⲸⲹⲺⲻⲼ" \o
            "ⲽⲾⲿⳀⳁⳂⳃⳄⳅⳆⳇⳈⳉⳊⳋⳌⳍⳎⳏⳐⳑⳒⳓⳔⳕⳖⳗⳘⳙⳚⳛⳜⳝⳞⳟⳠⳡⳢⳣⳤⳫⳬⳭⳮⳲⳳꚀꚁꚂꚃꚄꚅꚆꚇꚈꚉꚊꚋꚌꚍ" \o
            "ꚎꚏꚐꚑꚒꚓꚔꚕꚖꚗꚘꚙꚚꚛꞀꞁꞂꞃꞄꞅꞆꞇꞋꞌꞍꞎꞐꞑꞒꞓꞔꞕꞖꞗꞘꞙꞚꞛꞜꞝꞞꞟꞠꞡꞢꞣꞤꞥꞦꞧꞨꞩꞪꞫꞬꞭꞮꞯꞰꞱ" \o
            "ꞲꞳꞴꞵꞶꞷꞸꞹꞺꞻꞼꞽꞾꞿꟀꟁꟂꟃꟄꟅꟆꟇꟈꟉꟊꟐꟑꟓꟕꟖꟗꟘꟙꟵꟶꟺꮀꮁꮂꮃꮄꮅꮆꮇꮈꮉꮊꮋꮌꮍꮎꮏꮐꮑꮒꮓꮔꮕꮖꮗ" \o
            "ꮘꮙꮚꮛꮜꮝꮞꮟꮠꮡꮢꮣꮤꮥꮦꮧꮨꮩꮪꮫꮬꮭꮮꮯꮰꮱꮲꮳꮴꮵꮶꮷꮸꮹꮺꮻꮼꮽꮾꮿ"),
         ignorable |-> Chars(
            "`'.:^¨­¯´·¸ʰʱʲʳʴʵʶʷʸʹʺʻʼʽʾʿˀˁ˂˃˄˅ˆˇˈˉˊˋˌˍˎˏːˑ˒˓˔˕˖˗˘˙˚˛˜˝˞˟ˠˡ" \o
            "ˢˣˤ˥˦˧˨˩˪˫ˬ˭ˮ˯˰˱˲˳˴˵˶˷˸˹˺˻˼˽˾˿΄΅·҃҄҅҆҇҈҉֑֖֛֢֣֤֚֒֓֔֕֗֘֙֜֝֞֟֠֡" \o
            "ְֱֲֳִֵֶַָׇֹֺֻּֽֿׁׂ֥֦֧֪ׅ֭֮֨֩֫֬֯ׄ״ۖۗۘۙۚۛۜ۝ۣ۟۠ۡۢۤۥۦ۪ۭۧۨ۫۬ަާިީުޫ" \o
            "ެޭޮޯް߲߫߬߭߮߯߰߱߳ߴߵߺ߽࢈࢐࢑࢙࢚࢛࢘࢜࢝࢞࢟ࣉ࣏࣐࣑࣒࣓࣊࣋࣌࣍࣎ࣔࣕࣖࣗࣘࣙࣚࣛࣜࣝࣞࣟ࣠࣡࣢ࣣࣦࣤࣥࣧ" \o
            "ࣰࣱࣲࣩ࣭࣮࣯ࣶࣹࣺࣨ࣪࣫࣬ࣳࣴࣵࣷࣸࣻࣼࣽࣾࣿঁ়ুূৃৄ্ৢৣ৾ઁં઼ુૂૃૄૅેૈ્ૢૣૺૻૼ૽૾૿ஂீ்ಁ಼ಿೆ" \o
            "ೌ್ೢೣඁ්ිීුූັິີຶື຺ຸູົຼໆ່້໊໋໌ໍ྄ཱྀྀྂྃ྆྇ྍྎྏྐྑྒྒྷྔྕྖྗྙྚྛྜྜྷྞྟྠྡྡྷྣྤྥྦྦྷ" \o
            "ྨྩྪྫྫྷྭྮྯྰྱྲླྴྵྶྷྸྐྵྺྻྼ࿆ႂႅႆႍႝჼ឴឵ិីឹឺុូួំ៉៊់៌៍៎៏័៑្៓ៗ៝ᢅᢆᢩᪧ᪰᪱᪲᪳᪴" \o
            "᪵᪶᪷᪸᪹᪺᪽᪻᪼᪾ᪿᫀ᫃᫄᫊᫁᫂᫅᫆᫇᫈᫉᫋ᫌᫍᫎᮀᮁᮢᮣᮤᮥᮨᮩ᮫ᮬᮭ᯦ᯨᯩᯭᯯᯰᯱ᳔᳕᳖᳗᳘᳙᳜᳝᳞᳟᳐᳑᳒᳚᳛᳠" \o
            "᳢᳣᳤᳥᳦᳧᳨᳭᳴᳸᳹ᶛᶜᶝᶞᶟᶠᶡᶢᶣᶤᶥᶦᶧᶨᶩᶪᶫᶬᶭᶮᶯᶰᶱᶲᶳᶴᶵᶶᶷᶸᶹᶺᶻᶼᶽᶾᶿ᷂᷊᷀᷁᷃᷄᷅᷆᷇᷈᷉᷋" \o
            "᷐᷎᷺᷏᷹᷽᷿᷷᷸᷌᷑᷒ᷓᷔᷕᷖᷗᷘᷙᷚᷛᷜᷝᷞᷟᷠᷡᷢᷣᷤᷥᷦᷧᷨᷩᷪᷫᷬᷭᷮᷯᷰᷱᷲᷳᷴ᷵᷻᷾᷶᷼᷍᾽᾿῀῁῍῎῏῝" \o
            "῞῟῭΅`´῾ₐₑₒₓₔₕₖₗₘₙₚₛₜ⃒⃓⃘⃙⃚⃐⃑⃔⃕⃖⃗⃛⃜⃝⃞⃟⃠⃡⃢⃣⃤⃥⃦⃪⃫⃨⃬⃭⃮⃯⃧⃩⃰⳯⳰⳱ⷠⷡⷢⷣ" \o
            "゙゚ⷤⷥⷦⷧⷨⷩⷪⷫⷬⷭⷮⷯⷰⷱⷲⷳⷴⷵⷶⷷⷸⷹⷺⷻⷼⷽⷾⷿ゛゜ゝゞーヽヾꓸꓹꓺꓻꓼꓽꚜꚝꚞꚟ꛰꛱ꞈ꞉꞊ꟲꟳꟴꟸꟹ꣄ꣅ꣠" \o
            "꣡꣢꣣꣤꣥꣦꣧꣨꣩꣪꣫꣬꣭꣮꣯꣰꣱ꣿꦀꦁꦂ꦳ꦶꦷꦸꦹꦼꦽꧏꧥꧦꪴꪰꪲꪳꪷꪸꪾ꪿꫁ꫝꫬꫭꫳꫴ꫶ꯥꯨ꯭﮲﮳﮴﮵﮶﮷﮸﮹﮺﮻﮼" \o
            "﮽﮾﮿﯀﯁﯂﻿ﾞﾟ￣￹￺￻")]

\* str.lower().  A capital sigma becomes the final form when a cased
\* character stands before it and none after it, case-ignorable characters
\* skipped.  A text that holds a character of Casing.unwritten has no value.
Lower(location) ==
    LET char(i) == SubSeq(location, i, i)
        finalSigma(i) ==
            LET before == {j \in 1..(i - 1) : char(j) \notin Casing.ignorable}
                after == {j \in (i + 1)..Len(location) : char(j) \notin Casing.ignorable}
                last == CHOOSE j \in before : \A k \in before : k <= j
                next == CHOOSE j \in after : \A k \in after : j <= k
            IN  /\ before # {}
                /\ char(last) \in Casing.cased
                /\ after # {} => char(next) \notin Casing.cased
        lowerAt(i) ==
            CASE char(i) = "Σ" /\ finalSigma(i) -> "ς"
              [] char(i) \in DOMAIN Casing.lower /\ ~(char(i) = "Σ" /\ finalSigma(i)) ->
                    Casing.lower[char(i)]
              [] char(i) \notin DOMAIN Casing.lower \cup Casing.unwritten -> char(i)
        RECURSIVE from(_)
        from(i) == IF i > Len(location) THEN "" ELSE lowerAt(i) \o from(i + 1)
    IN  from(1)

weather_data ==
    [l \in {"new york", "london", "tokyo", "paris"} |->
        CASE l = "new york" -> "Sunny, 72°F"
          [] l = "london"   -> "Cloudy, 15°C"
          [] l = "tokyo"    -> "Rainy, 20°C"
          [] l = "paris"    -> "Partly cloudy, 18°C"]

get_weather(location) ==
    LET weather == IF Lower(location) \in DOMAIN weather_data
                   THEN <<weather_data[Lower(location)]>>
                   ELSE <<"Weather data not available for ", location>>
    IN  <<"The weather in ", location, " is ">> \o weather

search_web(query) ==
    <<"Search results for '", query, "': ",
      "Found 3 relevant articles about ", query, ".">>

\* The body of the tool a branch of the if/elif chain invokes.
ToolBody(v, name, args) ==
    CASE name = "calculate" ->
            IF v = "simple" THEN calculate_simple(args.expression)
                            ELSE calculate_complete(args.expression)
      [] name = "get_weather" -> get_weather(args.location)
      [] name = "search_web"  -> search_web(args.query)

----------------------------------------------------------------------------
(* run_agent_loop *)

\* Mutant of Registered: a tool is dispatched to once and is gone afterwards.
Registered_oneshot(v, name) ==
    /\ IF v = "simple"
       THEN name \in {"calculate", "get_weather", "search_web"}
       ELSE name = "calculate"
    /\ \A a \in 1..Len(messages) : \A i \in 1..Len(messages[a].tool_calls) :
         messages[a].tool_calls[i].name = name =>
             \A k \in 1..Len(tool_invocations) :
                 tool_invocations[k] # messages[a].tool_calls[i].id

\* The names the if/elif chain of the loop dispatches on.
Registered(v, name) ==
    IF v = "simple"
    THEN name \in {"calculate", "get_weather", "search_web"}
    ELSE name = "calculate"

\* Mutant of InRange: the loop bound off by one.
InRange_offbyone(i, n) == i <= n

\* for iteration in range(max_iterations)
InRange(i, n) == i < n

\* if not response.tool_calls
HasToolCalls(r) == Len(r.tool_calls) > 0

\* Mutant of ToolCallAt: the requests visited last to first.
ToolCallAt_reversed(r, i) == r.tool_calls[Len(r.tool_calls) - i + 1]

\* for tool_call in response.tool_calls: the i-th request visited
ToolCallAt(r, i) == r.tool_calls[i]

\* Mutant of UnknownToolText: the notice without the requested name.
UnknownToolText_noname(tool_name) == <<"Unknown tool">>

UnknownToolText(tool_name) == <<"Unknown tool: ", tool_name>>

Sentinel(v) ==
    IF v = "simple"
    THEN <<"Max iterations reached without final answer">>
    ELSE <<"Max iterations reached">>

\* The other programs before they start
NoOutcome ==
    [result |-> NoResult, exception |-> NoException, model_calls |-> 0,
     tool_invocations |-> 0, messages |-> <<>>]

ReplayInit ==
    /\ run = 1
    /\ script = <<>>
    /\ first_run = NoOutcome

MemoryInit ==
    /\ store = <<>>
    /\ mem_pc = "main"
    /\ turns = <<>>
    /\ history = <<>>
    /\ conversation_history = <<>>

NoPrevious == [query |-> "", analysis |-> "", tool_log |-> <<>>]

AgentInit ==
    /\ agent_pc = "main"
    /\ agent_run = 0
    /\ agent_query = ""
    /\ analysis = ""
    /\ results = <<>>
    /\ tool_log = <<>>
    /\ agent_model_calls = 0
    /\ final_answer = NoResult
    /\ previous = NoPrevious

GraphInit ==
    /\ graph_variant = "none"
    /\ state_messages = <<>>
    /\ node = "script"
    /\ interrupted = FALSE
    /\ invokes = 0
    /\ graph_next_id = 1
    /\ graph_trace = <<>>

SummarizerInit ==
    /\ summ_pc = "new"
    /\ max_messages = 4
    /\ long_history = <<>>
    /\ input_data = <<>>

NoState == [messages |-> <<>>]

StepsInit ==
    /\ step_node = "script"
    /\ step_state = NoState
    /\ step_trace = <<>>

WorkflowInit ==
    /\ wf_node = "script"
    /\ wf_state = NoState
    /\ wf_trace = <<>>

CompositionInit ==
    /\ comp_node = "script"
    /\ comp_state = NoState
    /\ comp_trace = <<>>

Init ==
    /\ variant \in Variants
    /\ user_query \in Queries
    /\ max_iterations \in 1..MaxIter
    /\ messages = <<HumanMessage(user_query)>>
    /\ iteration = 0
    /\ response = NoResponse
    /\ tc_idx = 1
    /\ pc = "for"
    /\ result = NoResult
    /\ exception = NoException
    /\ model_calls = 0
    /\ tool_invocations = <<>>
    /\ inflight = {}
    /\ next_id = 1
    /\ ReplayInit
    /\ MemoryInit
    /\ AgentInit
    /\ GraphInit
    /\ SummarizerInit
    /\ StepsInit
    /\ WorkflowInit
    /\ CompositionInit

\* Loop head with an iteration left: the model call starts.
ForNext ==
    /\ pc = "for"
    /\ InRange(iteration, max_iterations)
    /\ pc' = "invoke"
    /\ model_calls' = model_calls + 1
    /\ inflight' = inflight \cup {<<"model", model_calls + 1>>}
    /\ UNCHANGED <<variant, user_query, max_iterations, messages, iteration,
                   response, tc_idx, result, exception, tool_invocations, next_id>>

\* Loop head with no iteration left: return the sentinel.
ForExhausted ==
    /\ pc = "for"
    /\ ~InRange(iteration, max_iterations)
    /\ pc' = "returned"
    /\ result' = Sentinel(variant)
    /\ UNCHANGED <<variant, user_query, max_iterations, messages, iteration,
                   response, tc_idx, exception, model_calls, tool_invocations,
                   inflight, next_id>>

\* Mutant of FinalAnswer: the content of the first reply of the transcript.
FinalAnswer_first(r, msgs) == msgs[2].content

\* What run_agent_loop returns for a reply without tool calls.
FinalAnswer(r, msgs) == r.content

\* Mutant of ModelReturns: the reply is put in front of the transcript.
ModelReturns_prepend ==
    /\ pc = "invoke"
    /\ \E reply \in ModelReplies(next_id, MaxRequests - (next_id - 1)) :
          /\ response' = reply
          /\ messages' = <<reply>> \o messages
          /\ next_id' = next_id + Len(reply.tool_calls)
          /\ IF ~HasToolCalls(reply)
             THEN /\ pc' = "returned"
                  /\ result' = reply.content
             ELSE /\ pc' = "tools"
                  /\ result' = result
    /\ tc_idx' = 1
    /\ inflight' = inflight \ {<<"model", model_calls>>}
    /\ UNCHANGED <<variant, user_query, max_iterations, iteration, exception,
                   model_calls, tool_invocations>>

\* Mutant of ModelReturns: a reply that has text is returned at once, tool
\* calls or not.
ModelReturns_returntext ==
    /\ pc = "invoke"
    /\ \E reply \in ModelReplies(next_id, MaxRequests - (next_id - 1)) :
          /\ response' = reply
          /\ messages' = Append(messages, reply)
          /\ next_id' = next_id + Len(reply.tool_calls)
          /\ IF reply.content # <<>>
             THEN /\ pc' = "returned"
                  /\ result' = reply.content
             ELSE /\ pc' = "tools"
                  /\ result' = result
    /\ tc_idx' = 1
    /\ inflight' = inflight \ {<<"model", model_calls>>}
    /\ UNCHANGED <<variant, user_query, max_iterations, iteration, exception,
                   model_calls, tool_invocations>>

\* The model call returns: append the reply, return its content when it
\* carries no tool calls, otherwise start on its tool calls.
ModelReturns ==
    /\ pc = "invoke"
    /\ \E reply \in ModelReplies(next_id, MaxRequests - (next_id - 1)) :
          /\ response' = reply
          /\ messages' = Append(messages, reply)
          /\ next_id' = next_id + Len(reply.tool_calls)
          /\ IF ~HasToolCalls(reply)
             THEN /\ pc' = "returned"
                  /\ result' = FinalAnswer(reply, messages')
             ELSE /\ pc' = "tools"
                  /\ result' = result
    /\ tc_idx' = 1
    /\ inflight' = inflight \ {<<"model", model_calls>>}
    /\ UNCHANGED <<variant, user_query, max_iterations, iteration, exception,
                   model_calls, tool_invocations>>

\* Mutant of ModelRaises: the failure is caught and the sentinel returned.
ModelRaises_masked ==
    /\ pc = "invoke"
    /\ pc' = "returned"
    /\ result' = Sentinel(variant)
    /\ exception' = [kind |-> "model", id |-> NoId]
    /\ inflight' = inflight \ {<<"model", model_calls>>}
    /\ UNCHANGED <<variant, user_query, max_iterations, messages, iteration,
                   response, tc_idx, model_calls, tool_invocations, next_id>>

\* The model call raises: nothing in run_agent_loop catches it.
ModelRaises ==
    /\ pc = "invoke"
    /\ pc' = "raised"
    /\ exception' = [kind |-> "model", id |-> NoId]
    /\ inflight' = inflight \ {<<"model", model_calls>>}
    /\ UNCHANGED <<variant, user_query, max_iterations, messages, iteration,
                   response, tc_idx, result, model_calls, tool_invocations, next_id>>

\* Mutant of Dispatch: an unmatched name is retried instead of passed over.
Dispatch_noadvance ==
    /\ pc = "tools"
    /\ tc_idx <= Len(response.tool_calls)
    /\ LET tool_call == response.tool_calls[tc_idx] IN
         IF Registered(variant, tool_call.name)
         THEN /\ pc' = "tool_invoke"
              /\ tool_invocations' = Append(tool_invocations, tool_call.id)
              /\ inflight' = inflight \cup {<<"tool", tool_call.id>>}
              /\ UNCHANGED <<messages, tc_idx>>
         ELSE UNCHANGED <<pc, tc_idx, messages, tool_invocations, inflight>>
    /\ UNCHANGED <<variant, user_query, max_iterations, iteration, response,
                   result, exception, model_calls, next_id>>

\* Mutant of Dispatch: a matched tool is started and the loop moves on to the
\* next request without waiting for it.
Dispatch_parallel ==
    /\ pc = "tools"
    /\ tc_idx <= Len(response.tool_calls)
    /\ LET tool_call == response.tool_calls[tc_idx] IN
         /\ tool_invocations' =
               IF Registered(variant, tool_call.name)
               THEN Append(tool_invocations, tool_call.id) ELSE tool_invocations
         /\ inflight' =
               IF Registered(variant, tool_call.name)
               THEN inflight \cup {<<"tool", tool_call.id>>} ELSE inflight
    /\ tc_idx' = tc_idx + 1
    /\ UNCHANGED <<variant, user_query, max_iterations, messages, iteration, response,
                   pc, result, exception, model_calls, next_id>>

\* One pass of the body of "for tool_call in response.tool_calls" up to the
\* branch taken: a matched name starts the tool's invocation; an unmatched
\* name gets the "Unknown tool" result in the simple variant and is passed
\* over in the complete variant.
Dispatch ==
    /\ pc = "tools"
    /\ tc_idx <= Len(response.tool_calls)
    /\ LET tool_call == ToolCallAt(response, tc_idx) IN
         IF Registered(variant, tool_call.name)
         THEN /\ pc' = "tool_invoke"
              /\ tool_invocations' = Append(tool_invocations, tool_call.id)
              /\ inflight' = inflight \cup {<<"tool", tool_call.id>>}
              /\ UNCHANGED <<messages, tc_idx>>
         ELSE /\ pc' = "tools"
              /\ tc_idx' = tc_idx + 1
              /\ messages' =
                    IF variant = "simple"
                    THEN Append(messages,
                                ToolMessage(UnknownToolText(tool_call.name), tool_call.id))
                    ELSE messages
              /\ UNCHANGED <<tool_invocations, inflight>>
    /\ UNCHANGED <<variant, user_query, max_iterations, iteration, response,
                   result, exception, model_calls, next_id>>

\* The invoked tool returns its text: append the tool result, go to the next
\* tool call.
ToolReturns ==
    /\ pc = "tool_invoke"
    /\ LET tool_call == ToolCallAt(response, tc_idx) IN
         /\ ValidArgs(tool_call.name, tool_call.args)
         /\ messages' = Append(messages,
                               ToolMessage(ToolBody(variant, tool_call.name, tool_call.args),
                                           tool_call.id))
         /\ inflight' = inflight \ {<<"tool", tool_call.id>>}
    /\ tc_idx' = tc_idx + 1
    /\ pc' = "tools"
    /\ UNCHANGED <<variant, user_query, max_iterations, iteration, response,
                   result, exception, model_calls, tool_invocations, next_id>>

\* The invocation raises (the arguments do not fit the tool's signature):
\* nothing in run_agent_loop catches it.
ToolRaises ==
    /\ pc = "tool_invoke"
    /\ LET tool_call == ToolCallAt(response, tc_idx) IN
         /\ ~ValidArgs(tool_call.name, tool_call.args)
         /\ exception' = [kind |-> "tool", id |-> tool_call.id]
         /\ inflight' = inflight \ {<<"tool", tool_call.id>>}
    /\ pc' = "raised"
    /\ UNCHANGED <<variant, user_query, max_iterations, messages, iteration,
                   response, tc_idx, result, model_calls, tool_invocations, next_id>>

\* All tool calls of the reply are handled: next iteration.
EndToolCalls ==
    /\ pc = "tools"
    /\ tc_idx > Len(response.tool_calls)
    /\ iteration' = iteration + 1
    /\ pc' = "for"
    /\ UNCHANGED <<variant, user_query, max_iterations, messages, response,
                   tc_idx, result, exception, model_calls, tool_invocations,
                   inflight, next_id>>

----------------------------------------------------------------------------
(* Two executions of run_agent_loop in a row, the second given what the     *)
(* first was given: the same arguments, and a scripted model that answers   *)
(* a transcript it was shown in the first execution as it answered it then. *)

\* Mutant of Restart: messages is a list that outlives the call, and the
\* query is appended to it.
Restart_keepmessages ==
    /\ run = 1
    /\ pc \in {"returned", "raised"}
    /\ first_run' = [result |-> result, exception |-> exception,
                 model_calls |-> model_calls,
                 tool_invocations |-> Len(tool_invocations),
                 messages |-> messages]
    /\ run' = 2
    /\ messages' = Append(messages, HumanMessage(user_query))
    /\ iteration' = 0
    /\ response' = NoResponse
    /\ tc_idx' = 1
    /\ pc' = "for"
    /\ result' = NoResult
    /\ exception' = NoException
    /\ model_calls' = 0
    /\ tool_invocations' = <<>>
    /\ inflight' = {}
    /\ next_id' = 1
    /\ UNCHANGED <<variant, user_query, max_iterations, script>>

\* The first execution is over; run_agent_loop is called again with the same
\* arguments: messages is bound to a new list holding the query, and the loop
\* starts from its first iteration.
Restart ==
    /\ run = 1
    /\ pc \in {"returned", "raised"}
    /\ first_run' = [result |-> result, exception |-> exception,
                 model_calls |-> model_calls,
                 tool_invocations |-> Len(tool_invocations),
                 messages |-> messages]
    /\ run' = 2
    /\ messages' = <<HumanMessage(user_query)>>
    /\ iteration' = 0
    /\ response' = NoResponse
    /\ tc_idx' = 1
    /\ pc' = "for"
    /\ result' = NoResult
    /\ exception' = NoException
    /\ model_calls' = 0
    /\ tool_invocations' = <<>>
    /\ inflight' = {}
    /\ next_id' = 1
    /\ UNCHANGED <<variant, user_query, max_iterations, script>>

\* A model call of the first execution, recorded with the transcript the
\* model was shown.  The replies of one execution request at most
\* MaxReplayRequests tools in all, each of them calculate or the tool that is
\* not registered.
RecordReply ==
    /\ run = 1
    /\ ModelReturns
    /\ next_id' - 1 <= MaxReplayRequests
    /\ \A i \in 1..Len(response'.tool_calls) :
          response'.tool_calls[i].name \in {"calculate", "send_email"}
    /\ script' = Append(script, [shown |-> messages, kind |-> "reply",
                                 reply |-> response'])
    /\ UNCHANGED <<run, first_run>>

RecordRaise ==
    /\ run = 1
    /\ ModelRaises
    /\ script' = Append(script, [shown |-> messages, kind |-> "raise",
                                 reply |-> NoResponse])
    /\ UNCHANGED <<run, first_run>>

\* A model call of the second execution: shown a transcript of the first
\* execution the model does what it did then; shown any other it is free.
ReplayReply ==
    /\ run = 2
    /\ ModelReturns
    /\ \A k \in 1..Len(script) :
          script[k].shown = messages =>
              script[k].kind = "reply" /\ response' = script[k].reply
    /\ UNCHANGED replay_vars

ReplayRaise ==
    /\ run = 2
    /\ \A k \in 1..Len(script) :
          script[k].shown = messages => script[k].kind = "raise"
    /\ ModelRaises
    /\ UNCHANGED replay_vars

ReplayNext ==
    \/ ForNext /\ UNCHANGED nonloop_vars
    \/ ForExhausted /\ UNCHANGED nonloop_vars
    \/ RecordReply /\ UNCHANGED nonreplay_vars
    \/ RecordRaise /\ UNCHANGED nonreplay_vars
    \/ ReplayReply /\ UNCHANGED nonreplay_vars
    \/ ReplayRaise /\ UNCHANGED nonreplay_vars
    \/ Dispatch /\ UNCHANGED nonloop_vars
    \/ ToolReturns /\ UNCHANGED nonloop_vars
    \/ ToolRaises /\ UNCHANGED nonloop_vars
    \/ EndToolCalls /\ UNCHANGED nonloop_vars
    \/ Restart /\ UNCHANGED nonreplay_vars

----------------------------------------------------------------------------
(* 05_memory.py: conversation memory.  chain_with_history.invoke loads the  *)
(* session's history with get_session_history, hands it to the prompt, and  *)
(* on return stores the input and the reply in that history; when the model *)
(* call raises nothing is stored and the exception leaves main.  The        *)
(* session id is the config each invoke is given: example 1 talks under    *)
(* "user_123", example 3 under "alice_session" and "bob_session".           *)

SessionIds == {"user_123", "alice_session", "bob_session"}

NoSession == "none"

Example1Inputs ==
    << <<"My name is Alice">>, <<"What's my name?">>,
       <<"What did I tell you in the first message?">> >>

Example2Inputs ==
    << <<"What is 5 + 3?">>, <<"Now multiply that by 2">>,
       <<"What was my first question?">> >>

Example3Inputs ==
    << <<"My favorite color is blue">>, <<"My favorite color is red">>,
       <<"What's my favorite color?">>, <<"What's my favorite color?">> >>

\* What the model may answer
MemoryContents == {<<"Nice to meet you, Alice">>, <<"Your name is Alice">>}

SystemMessage == [role |-> "system", content |-> <<"You are a helpful math tutor.">>]

\* store after get_session_history(session_id); the history it returns is
\* the entry of session_id
get_session_history(session_id) ==
    IF session_id \in DOMAIN store
    THEN store
    ELSE [s \in DOMAIN store \cup {session_id} |->
            IF s = session_id THEN <<>> ELSE store[s]]

\* main calls example_1_basic_memory, which talks under session id "user_123"
Example1Enter ==
    /\ mem_pc = "main"
    /\ turns' = [i \in 1..Len(Example1Inputs) |->
                   [session_id |-> "user_123", input |-> Example1Inputs[i]]]
    /\ mem_pc' = "example_1"
    /\ history' = <<>>
    /\ UNCHANGED <<store, conversation_history>>
    /\ UNCHANGED nonmemory_vars

\* chain_with_history.invoke has loaded the session's history and waits for the
\* model: the prompt holds exactly what the store holds for the session
InInvoke ==
    /\ mem_pc \in {"example_1", "example_3"}
    /\ turns # <<>>
    /\ Head(turns).session_id \in DOMAIN store
    /\ history = store[Head(turns).session_id]

\* chain_with_history.invoke is called: get_session_history creates the entry
\* of a new session id, the history is handed to the prompt, the model is called
InvokeEnter ==
    /\ mem_pc \in {"example_1", "example_3"}
    /\ turns # <<>>
    /\ ~InInvoke
    /\ store' = get_session_history(Head(turns).session_id)
    /\ history' = store'[Head(turns).session_id]
    /\ UNCHANGED <<mem_pc, turns, conversation_history>>
    /\ UNCHANGED nonmemory_vars

\* the model returns: the input and the reply are stored, invoke returns
InvokeReturns ==
    /\ InInvoke
    /\ \E content \in MemoryContents :
          store' = [store EXCEPT ![Head(turns).session_id] =
                      @ \o <<HumanMessage(Head(turns).input), AIMessage(content, <<>>)>>]
    /\ turns' = Tail(turns)
    /\ UNCHANGED <<mem_pc, history, conversation_history>>
    /\ UNCHANGED nonmemory_vars

\* the model call raises: chain_with_history.invoke raises, nothing is stored
InvokeRaises ==
    /\ InInvoke
    /\ mem_pc' = "raised"
    /\ UNCHANGED <<store, turns, history, conversation_history>>
    /\ UNCHANGED nonmemory_vars

\* example 1 returns, main calls example_2_manual_memory
Example2Enter ==
    /\ mem_pc = "example_1"
    /\ turns = <<>>
    /\ mem_pc' = "example_2"
    /\ conversation_history' = <<SystemMessage>>
    /\ turns' = [i \in 1..Len(Example2Inputs) |->
                   [session_id |-> NoSession, input |-> Example2Inputs[i]]]
    /\ history' = <<>>
    /\ UNCHANGED store
    /\ UNCHANGED nonmemory_vars

\* chat is between its two appends, waiting in llm.invoke: the list it handed
\* to the model ends with the user message
InChat ==
    /\ mem_pc = "example_2"
    /\ conversation_history[Len(conversation_history)].role = "user"

\* chat(user_message) is called: the user message is added and llm.invoke starts
ChatEnter ==
    /\ mem_pc = "example_2"
    /\ turns # <<>>
    /\ ~InChat
    /\ conversation_history' =
          Append(conversation_history,
                 [role |-> "user", content |-> Head(turns).input])
    /\ UNCHANGED <<store, mem_pc, turns, history>>
    /\ UNCHANGED nonmemory_vars

\* llm.invoke returns: the reply is added and chat(user_message) returns
ChatReturns ==
    /\ InChat
    /\ \E content \in MemoryContents :
          conversation_history' =
              Append(conversation_history,
                     [role |-> "assistant", content |-> content])
    /\ turns' = Tail(turns)
    /\ UNCHANGED <<store, mem_pc, history>>
    /\ UNCHANGED nonmemory_vars

\* llm.invoke raises: chat(user_message) raises with the user message added
ChatRaises ==
    /\ InChat
    /\ mem_pc' = "raised"
    /\ UNCHANGED <<store, turns, history, conversation_history>>
    /\ UNCHANGED nonmemory_vars

\* example 2 returns, main calls example_3_session_management, which talks
\* under "alice_session" and "bob_session" in turn
Example3Enter ==
    /\ mem_pc = "example_2"
    /\ turns = <<>>
    /\ turns' = [i \in 1..Len(Example3Inputs) |->
                   [session_id |-> IF i % 2 = 1 THEN "alice_session" ELSE "bob_session",
                    input |-> Example3Inputs[i]]]
    /\ mem_pc' = "example_3"
    /\ conversation_history' = <<>>
    /\ history' = <<>>
    /\ UNCHANGED store
    /\ UNCHANGED nonmemory_vars

\* example 3 returns, main ends
MainReturns ==
    /\ mem_pc = "example_3"
    /\ turns = <<>>
    /\ mem_pc' = "done"
    /\ UNCHANGED <<store, turns, history, conversation_history>>
    /\ UNCHANGED nonmemory_vars

MemoryNext ==
    \/ Example1Enter
    \/ InvokeEnter
    \/ InvokeReturns
    \/ InvokeRaises
    \/ Example2Enter
    \/ ChatEnter
    \/ ChatReturns
    \/ ChatRaises
    \/ Example3Enter
    \/ MainReturns

----------------------------------------------------------------------------
(* 03_agent_with_tools.py: simple_agent asks the model for an analysis,     *)
(* runs its tools by keyword matching on the query, and asks the model for  *)
(* the final answer.  Queries, replies and tool results are strings.        *)

AgentRuns == 2

\* main's two queries, and queries that take the other branches
AgentQueries ==
    { "What does a keyboard cost?",
      "What would a monitor cost with a 15% discount?",
      "Compare LAPTOP and Mouse at a 20% Discount",
      "Is there a 10% discount?",
      "Any discount on a mouse?",
      "What is your best price?",
      "Are keyboards discounted by 5%?",
      "Hello there" }

AgentContents == {"I should use search_product", "No tool is needed"}

\* word in text: the word is a substring of the text
In(word, text) ==
    \E i \in 1..(Len(text) - Len(word) + 1) : SubSeq(text, i, i + Len(word) - 1) = word

\* dict products of search_product, in insertion order; the list of line 112
\* names the same products in the same order
products == <<"keyboard", "mouse", "monitor", "laptop">>

price_of ==
    [p \in {"keyboard", "mouse", "monitor", "laptop"} |->
        CASE p = "keyboard" -> "$99"
          [] p = "mouse"    -> "$49"
          [] p = "monitor"  -> "$299"
          [] p = "laptop"   -> "$1299"]

\* product.capitalize() for the keys of products
Capitalize(p) ==
    CASE p = "keyboard" -> "Keyboard"
      [] p = "mouse"    -> "Mouse"
      [] p = "monitor"  -> "Monitor"
      [] p = "laptop"   -> "Laptop"

\* The characters \d matches and int() and float() read as digits, each with
\* its value: the decimal digits that a string of this module can hold.
DigitValue ==
    LET digits ==
            << "0۰߀০૦௦೦෦໐႐០᧐᪀᪐᮰꣐꧐꧰꯰",
               "1۱߁১૧௧೧෧໑႑១᧑᪁᪑᮱꣑꧑꧱꯱",
               "2۲߂২૨௨೨෨໒႒២᧒᪂᪒᮲꣒꧒꧲꯲",
               "3۳߃৩૩௩೩෩໓႓៣᧓᪃᪓᮳꣓꧓꧳꯳",
               "4۴߄৪૪௪೪෪໔႔៤᧔᪄᪔᮴꣔꧔꧴꯴",
               "5۵߅৫૫௫೫෫໕႕៥᧕᪅᪕᮵꣕꧕꧵꯵",
               "6۶߆৬૬௬೬෬໖႖៦᧖᪆᪖᮶꣖꧖꧶꯶",
               "7۷߇৭૭௭೭෭໗႗៧᧗᪇᪗᮷꣗꧗꧷꯷",
               "8۸߈৮૮௮೮෮໘႘៨᧘᪈᪘᮸꣘꧘꧸꯸",
               "9۹߉৯૯௯೯෯໙႙៩᧙᪉᪙᮹꣙꧙꧹꯹" >>
    IN  [c \in UNION {Chars(digits[d]) : d \in 1..10} |->
            CHOOSE d \in 0..9 : c \in Chars(digits[d + 1])]

\* int(text) for a text of digits
RECURSIVE int(_)
int(text) ==
    IF Len(text) = 0 THEN 0
    ELSE 10 * int(SubSeq(text, 1, Len(text) - 1))
            + DigitValue[SubSeq(text, Len(text), Len(text))]

\* a search that found nothing returns None
NoMatch == "<no match>"

Min(S) == CHOOSE x \in S : \A y \in S : x <= y

\* re.search of a pattern that is a literal, the group (\d+), and a literal
\* that begins with no digit: group(1) of the leftmost match.  The group takes
\* every digit that follows; giving one back would leave a digit where the
\* second literal has to begin.
re_search(before, after, text) ==
    LET n == Len(text)
        isDigit(i) == SubSeq(text, i, i) \in DOMAIN DigitValue
        first(i) == i + Len(before)
        ends(i) == {e \in first(i)..n : \A j \in first(i)..e : isDigit(j)}
        last(i) == CHOOSE e \in ends(i) : \A f \in ends(i) : f <= e
        matches(i) ==
            /\ first(i) <= n
            /\ SubSeq(text, i, first(i) - 1) = before
            /\ ends(i) # {}
            /\ last(i) + Len(after) <= n
            /\ SubSeq(text, last(i) + 1, last(i) + Len(after)) = after
        starts == {i \in 1..n : matches(i)}
    IN IF starts = {} THEN NoMatch
       ELSE SubSeq(text, first(Min(starts)), last(Min(starts)))

\* f"${discounted:.2f}" for an amount in cents
Money(cents) ==
    LET amount == IF cents < 0 THEN 0 - cents ELSE cents
    IN  "$" \o (IF cents < 0 THEN "-" ELSE "") \o ToString(amount \div 100) \o "."
            \o (IF amount % 100 < 10 THEN "0" ELSE "") \o ToString(amount % 100)

search_product(name) ==
    LET name_lower == Lower(name)
        found == {i \in 1..Len(products) : In(products[i], name_lower)}
    IN IF found # {}
       THEN Capitalize(products[Min(found)]) \o ": " \o price_of[products[Min(found)]]
       ELSE "Product '" \o name \o "' not found in our database."

\* Lines 58-64.  The value is given when what is left of the price is digits
\* only, and the error text when float() cannot read it: it is empty or holds
\* a character that no text float() reads holds.  No value is given for the
\* other prices (a sign, a fraction, an exponent, blank space, inf, nan).
\* A product that is a negative zero is printed with its sign.
calculate_discount(price, discount_percent) ==
    LET RECURSIVE replace(_)
        replace(text) ==
            IF Len(text) = 0 THEN ""
            ELSE (IF SubSeq(text, 1, 1) = "$" THEN "" ELSE SubSeq(text, 1, 1))
                    \o replace(SubSeq(text, 2, Len(text)))
        numeric_price == replace(price)
        readable == DOMAIN DigitValue \cup Chars("+-._eEiInNfFtTyYaA")
                        \cup {" ", "\t", "\n", "\r", "\f"} \cup DOMAIN CodePoint
    IN CASE numeric_price # "" /\ Chars(numeric_price) \subseteq DOMAIN DigitValue ->
                IF int(numeric_price) = 0 /\ discount_percent > 100
                THEN "$-0.00"
                ELSE Money(int(numeric_price) * (100 - discount_percent))
         [] numeric_price = "" \/ ~(Chars(numeric_price) \subseteq readable) ->
                "Error calculating discount"

\* lines 108-116: the products searched, in the order of the list
Searched(q) ==
    IF \E word \in {"cost", "price", "keyboard", "mouse", "monitor", "laptop"} :
            In(word, Lower(q))
    THEN SelectSeq(products, LAMBDA product : In(product, Lower(q)))
    ELSE <<>>

SearchResults(q) ==
    [i \in 1..Len(Searched(q)) |->
        "Product search result: " \o search_product(Searched(q)[i])]

\* Mutant of price_match: the price is read from the last result.
price_match_last(found) == re_search("$", "", found[Len(found)])

\* line 126: the price is read from results[0]
price_match(found) == re_search("$", "", found[1])

\* lines 119-136: the discount calls, none or one
Discounted(q, found) ==
    IF /\ In("discount", Lower(q))
       /\ re_search("", "%", q) # NoMatch
       /\ found # <<>>
       /\ price_match(found) # NoMatch
    THEN << [price |-> "$" \o price_match(found),
             discount_percent |-> int(re_search("", "%", q))] >>
    ELSE <<>>

\* main calls simple_agent(query, tools, llm); the analysis chain is invoked
AgentCall ==
    /\ agent_pc \in {"main", "returned"}
    /\ agent_run < AgentRuns
    /\ agent_run' = agent_run + 1
    /\ agent_query' \in AgentQueries
    /\ previous' = IF agent_pc = "returned"
                   THEN [query |-> agent_query, analysis |-> analysis, tool_log |-> tool_log]
                   ELSE previous
    /\ analysis' = ""
    /\ results' = <<>>
    /\ tool_log' = <<>>
    /\ final_answer' = NoResult
    /\ agent_model_calls' = 1
    /\ agent_pc' = "analysis"
    /\ UNCHANGED nonagent_vars

\* analysis_chain.invoke returns; the reply is printed
AnalysisReturns ==
    /\ agent_pc = "analysis"
    /\ analysis' \in AgentContents
    /\ agent_pc' = "tools"
    /\ UNCHANGED <<agent_run, agent_query, results, tool_log, agent_model_calls,
                   final_answer, previous>>
    /\ UNCHANGED nonagent_vars

\* lines 105-136, then the final chain is invoked
ExecuteTools ==
    /\ agent_pc = "tools"
    /\ LET found == SearchResults(agent_query)
           discount == Discounted(agent_query, found)
       IN /\ results' =
                found \o
                [i \in 1..Len(discount) |->
                    "Discount calculation: " \o
                    calculate_discount(discount[i].price, discount[i].discount_percent)]
          /\ tool_log' =
                [i \in 1..Len(Searched(agent_query)) |->
                    [name |-> "search_product", args |-> [name |-> Searched(agent_query)[i]]]]
                \o [i \in 1..Len(discount) |->
                    [name |-> "calculate_discount", args |-> discount[i]]]
    /\ agent_model_calls' = agent_model_calls + 1
    /\ agent_pc' = "final"
    /\ UNCHANGED <<agent_run, agent_query, analysis, final_answer, previous>>
    /\ UNCHANGED nonagent_vars

\* final_chain.invoke returns; simple_agent returns its content
FinalReturns ==
    /\ agent_pc = "final"
    /\ final_answer' \in AgentContents
    /\ agent_pc' = "returned"
    /\ UNCHANGED <<agent_run, agent_query, analysis, results, tool_log,
                   agent_model_calls, previous>>
    /\ UNCHANGED nonagent_vars

\* either chain.invoke raises: the exception leaves simple_agent and main
ChainRaises ==
    /\ agent_pc \in {"analysis", "final"}
    /\ agent_pc' = "raised"
    /\ UNCHANGED <<agent_run, agent_query, analysis, results, tool_log,
                   agent_model_calls, final_answer, previous>>
    /\ UNCHANGED nonagent_vars

AgentNext ==
    \/ AgentCall
    \/ AnalysisReturns
    \/ ExecuteTools
    \/ FinalReturns
    \/ ChainRaises

----------------------------------------------------------------------------
(* The graph agent of 05_langgraph_stategraph.py and of example 2 of        *)
(* 06_persistence_and_hitl.py: entry point "agent" (call_model), a          *)
(* conditional edge from it (should_continue), node "tools" (call_tools)    *)
(* and an edge from "tools" back to "agent".  A node's return value is      *)
(* added to state["messages"] when the node ends; a node that raises adds   *)
(* nothing and ends the run.  The second graph is compiled with             *)
(* interrupt_before=["tools"]: app.invoke returns before the tools node     *)
(* runs, and the script resumes it once with app.invoke(None).              *)

GraphVariants == {"stategraph", "hitl"}

GraphQuery(v) ==
    IF v = "stategraph"
    THEN <<"Search for LangGraph v1 features">>
    ELSE <<"Search for LangGraph persistence">>

\* The requests a reply of the model can carry: search as declared, search
\* with a wrong argument name, and a tool that is not bound
GraphToolCallChoices ==
    { [name |-> "search", args |-> [query |-> <<"LangGraph">>]],
      [name |-> "search", args |-> [q |-> <<"LangGraph">>]],
      [name |-> "lookup", args |-> [query |-> <<"LangGraph">>]] }

GraphReplies(first_id, budget) ==
    UNION { { AIMessage(c, CallsOf(ch, first_id)) :
                c \in Contents, ch \in [1..k -> GraphToolCallChoices] } : k \in 0..budget }

\* tools_by_name: tool name -> the parameter its signature declares
tools_by_name == [name \in {"search"} |-> "query"]

search(q) == <<"Results for: ">> \o q

\* tools_by_name[call["name"]].invoke(call["args"]) returns: the name is a key
\* (no KeyError) and the arguments fit the signature (no validation error)
Invocable(call) ==
    /\ call.name \in DOMAIN tools_by_name
    /\ tools_by_name[call.name] \in DOMAIN call.args

\* Mutant of ToolResults: the results are collected last call first.
ToolResults_reversed(calls) ==
    [i \in 1..Len(calls) |->
        ToolMessage(search(calls[Len(calls) - i + 1].args.query),
                    calls[Len(calls) - i + 1].id)]

\* the list results of call_tools
ToolResults(calls) ==
    [i \in 1..Len(calls) |-> ToolMessage(search(calls[i].args.query), calls[i].id)]

should_continue(ms) ==
    IF HasToolCalls(ms[Len(ms)]) THEN "tools" ELSE "END"

\* An entry of graph_trace: the model requested tool call id, the run was
\* interrupted, the script resumed it, or tool call id was invoked; invoke is
\* the app.invoke call it happened in.
Event(event, id) == [event |-> event, id |-> id, invoke |-> invokes]

Requests(reply) ==
    [i \in 1..Len(reply.tool_calls) |-> Event("request", reply.tool_calls[i].id)]

\* The calls call_tools invokes: all of them, or those up to the first whose
\* name is not in tools_by_name (the lookup raises before any invoke) or
\* whose invoke raises.
Invoked_by_call_tools(calls) ==
    LET failing == {i \in 1..Len(calls) : ~Invocable(calls[i])}
        stop == IF failing = {} THEN Len(calls)
                ELSE IF calls[Min(failing)].name \in DOMAIN tools_by_name
                     THEN Min(failing) ELSE Min(failing) - 1
    IN [i \in 1..stop |-> Event("tool", calls[i].id)]

\* the script calls app.invoke with the user's message
GraphInvoke ==
    /\ node = "script"
    /\ invokes = 0
    /\ graph_variant' \in GraphVariants
    /\ state_messages' = <<HumanMessage(GraphQuery(graph_variant'))>>
    /\ node' = "agent"
    /\ invokes' = 1
    /\ UNCHANGED <<interrupted, graph_next_id, graph_trace>>
    /\ UNCHANGED nongraph_vars

\* Mutant of CallModel: interrupt_before is ignored.
CallModel_nointerrupt ==
    /\ node = "agent"
    /\ \E reply \in GraphReplies(graph_next_id, MaxRequests - (graph_next_id - 1)) :
          /\ state_messages' = Append(state_messages, reply)
          /\ graph_next_id' = graph_next_id + Len(reply.tool_calls)
          /\ graph_trace' = graph_trace \o Requests(reply)
    /\ node' = should_continue(state_messages')
    /\ interrupted' = FALSE
    /\ UNCHANGED <<graph_variant, invokes>>
    /\ UNCHANGED nongraph_vars

\* node agent: call_model returns the reply; the conditional edge is followed,
\* and with interrupt_before=["tools"] app.invoke returns before the tools node
CallModel ==
    /\ node = "agent"
    /\ \E reply \in GraphReplies(graph_next_id, MaxRequests - (graph_next_id - 1)) :
          /\ state_messages' = Append(state_messages, reply)
          /\ graph_next_id' = graph_next_id + Len(reply.tool_calls)
          /\ node' = should_continue(state_messages')
          /\ interrupted' = (graph_variant = "hitl" /\ node' = "tools")
          /\ graph_trace' = graph_trace \o Requests(reply) \o
                (IF interrupted' THEN <<Event("interrupt", NoId)>> ELSE <<>>)
    /\ UNCHANGED <<graph_variant, invokes>>
    /\ UNCHANGED nongraph_vars

\* node agent: model_with_tools.invoke raises
CallModelRaises ==
    /\ node = "agent"
    /\ node' = "raised"
    /\ UNCHANGED <<graph_variant, state_messages, interrupted, invokes, graph_next_id,
                   graph_trace>>
    /\ UNCHANGED nongraph_vars

\* node tools: call_tools returns its results; the edge to agent is followed
CallTools ==
    /\ node = "tools"
    /\ ~interrupted
    /\ LET last_message == state_messages[Len(state_messages)]
       IN /\ \A i \in 1..Len(last_message.tool_calls) :
                Invocable(last_message.tool_calls[i])
          /\ state_messages' = state_messages \o ToolResults(last_message.tool_calls)
          /\ graph_trace' = graph_trace \o Invoked_by_call_tools(last_message.tool_calls)
    /\ node' = "agent"
    /\ UNCHANGED <<graph_variant, interrupted, invokes, graph_next_id>>
    /\ UNCHANGED nongraph_vars

\* node tools: a lookup in tools_by_name or an invoke raises; the results
\* collected so far are lost
CallToolsRaises ==
    /\ node = "tools"
    /\ ~interrupted
    /\ LET last_message == state_messages[Len(state_messages)]
       IN /\ \E i \in 1..Len(last_message.tool_calls) :
                ~Invocable(last_message.tool_calls[i])
          /\ graph_trace' = graph_trace \o Invoked_by_call_tools(last_message.tool_calls)
    /\ node' = "raised"
    /\ UNCHANGED <<graph_variant, state_messages, interrupted, invokes, graph_next_id>>
    /\ UNCHANGED nongraph_vars

\* 06_persistence_and_hitl.py, step 2: once the first app.invoke has returned
\* the script calls app.invoke(None, config), whether that invoke was
\* interrupted or ran to END.  An interrupted thread goes on with its pending
\* tools node; on a thread that is at END no node runs and the state comes
\* back as it is.
Resume ==
    /\ graph_variant = "hitl"
    /\ invokes = 1
    /\ interrupted \/ node = "END"
    /\ invokes' = 2
    /\ interrupted' = FALSE
    /\ graph_trace' = Append(graph_trace, [event |-> "resume", id |-> NoId, invoke |-> invokes'])
    /\ UNCHANGED <<graph_variant, state_messages, node, graph_next_id>>
    /\ UNCHANGED nongraph_vars

GraphNext ==
    \/ GraphInvoke
    \/ CallModel
    \/ CallModelRaises
    \/ CallTools
    \/ CallToolsRaises
    \/ Resume

----------------------------------------------------------------------------
(* 02_middleware_example.py: HistorySummarizer *)

\* Largest max_messages a HistorySummarizer is constructed with
MaxKeep == 3

\* Longest message list a HistorySummarizer is called with
MaxHistory == 3

\* The elements of main's long_history; the second one is the plain string
\* get_weather.invoke returns
SummarizerMessages ==
    { HumanMessage(<<"Hi", "there", "!">>),
      [type |-> "str",
       content |-> <<"The", "weather", "in", "New York", "is", "sunny", ",", "72°F">>],
      HumanMessage(<<"What's", "the", "weather", "in", "San Francisco", "?">>) }

Histories == UNION {[1..n -> SummarizerMessages] : n \in 0..MaxHistory}

\* Python's list[start:] : a negative start counts from the end and is clamped
\* at the first element; -0 is 0, the start of the list.
SliceFrom(list, start) ==
    LET from == IF start < 0
                THEN (IF Len(list) + start < 0 THEN 0 ELSE Len(list) + start)
                ELSE (IF start > Len(list) THEN Len(list) ELSE start)
    IN SubSeq(list, from + 1, Len(list))

\* HistorySummarizer.__init__
Construct ==
    /\ summ_pc = "new"
    /\ \E n \in 0..MaxKeep : max_messages' = n
    /\ summ_pc' = "constructed"
    /\ UNCHANGED <<long_history, input_data>>
    /\ UNCHANGED nonsummarizer_vars

\* HistorySummarizer.__call__ on {"messages": list}
Call ==
    /\ summ_pc = "constructed"
    /\ \E list \in Histories :
          /\ long_history' = list
          /\ input_data' = IF Len(list) > max_messages
                           THEN SliceFrom(list, -max_messages)
                           ELSE list
    /\ summ_pc' = "called"
    /\ UNCHANGED max_messages
    /\ UNCHANGED nonsummarizer_vars

SummarizerNext ==
    \/ Construct
    \/ Call

----------------------------------------------------------------------------
(* 06_langgraph_example.py: process_query -> generate_response (looping) -> finalize *)

\* Initial step_count values run from -MaxStart to MaxStart
MaxStart == 23

\* app.invoke(initial_input) passes no config: the runtime's default
\* recursion_limit, the number of supersteps one invoke may take.  Each node
\* takes one superstep; when RecursionLimit nodes have run app.invoke raises
\* GraphRecursionError, whether or not a node is still due.
RecursionLimit == 25

\* main's user_query
StepQuery == <<"Briefly explain what LangGraph is and how it differs from LangChain">>

\* response.content of a model reply
StepContents == {<<"LangGraph is a library for building stateful agents">>}

Ran(name, state) == [node |-> name, step_count |-> state.step_count]

\* Conditional edge after generate_response
step_should_continue_inclusive(state) ==
    IF state.step_count <= 3 THEN "continue" ELSE "end"

step_should_continue(state) ==
    IF state.step_count < 3 THEN "continue" ELSE "end"

\* main: app.invoke(initial_input)
StepsInvoke ==
    /\ step_node = "script"
    /\ \E n \in (0 - MaxStart)..MaxStart :
          step_state' = [messages |-> <<>>, step_count |-> n,
                         user_query |-> StepQuery, result |-> <<>>]
    /\ step_node' = "process_query"
    /\ step_trace' = <<>>
    /\ UNCHANGED nonsteps_vars

\* Node process_query, then the edge to generate_response (or the end of the
\* supersteps, here as after every node)
ProcessQuery ==
    /\ step_node = "process_query"
    /\ step_state' = [step_state EXCEPT
                         !.step_count = @ + 1,
                         !.messages = @ \o <<HumanMessage(step_state.user_query)>>]
    /\ step_trace' = Append(step_trace, Ran("process_query", step_state))
    /\ step_node' = IF Len(step_trace') >= RecursionLimit THEN "out_of_steps"
                    ELSE "generate_response"
    /\ UNCHANGED nonsteps_vars

\* Node generate_response when model.invoke returns, then the conditional edge
GenerateResponse ==
    /\ step_node = "generate_response"
    /\ \E content \in StepContents :
          step_state' = [step_state EXCEPT
                            !.messages = @ \o <<AIMessage(content, <<>>)>>,
                            !.result = content,
                            !.step_count = @ + 1]
    /\ step_trace' = Append(step_trace, Ran("generate_response", step_state))
    /\ step_node' = IF Len(step_trace') >= RecursionLimit THEN "out_of_steps"
                    ELSE IF step_should_continue(step_state') = "continue"
                         THEN "generate_response" ELSE "finalize"
    /\ UNCHANGED nonsteps_vars

\* Node generate_response when get_groq_api_key or model.invoke raises: app.invoke
\* raises and main's except clause prints the error
GenerateResponseRaises ==
    /\ step_node = "generate_response"
    /\ step_node' = "raised"
    /\ UNCHANGED <<step_state, step_trace>>
    /\ UNCHANGED nonsteps_vars

\* Node finalize, then the edge to END
Finalize ==
    /\ step_node = "finalize"
    /\ step_state' = [step_state EXCEPT !.step_count = @ + 1]
    /\ step_trace' = Append(step_trace, Ran("finalize", step_state))
    /\ step_node' = IF Len(step_trace') >= RecursionLimit THEN "out_of_steps"
                    ELSE "END"
    /\ UNCHANGED nonsteps_vars

StepsNext ==
    \/ StepsInvoke
    \/ ProcessQuery
    \/ GenerateResponse
    \/ GenerateResponseRaises
    \/ Finalize

----------------------------------------------------------------------------
(* langgraph_examples/02_workflow.py: analyze -> (research) -> respond *)

\* Largest iteration value a run starts from
MaxStartIteration == 1

\* main's two queries
WorkflowQueries ==
    { <<"What", "is", "2+2", "?">>,
      <<"What", "are", "the", "latest", "developments", "in", "quantum", "computing", "?">> }

\* analysis.content, the reply to "Reply only 'YES' or 'NO'"
AnalysisContents ==
    { "YES", "NO",
      "Yes, it needs research",
      "no research needed",
      "No. Yesterday's answer still holds." }

\* response.content of the final reply
WorkflowContents == {<<"4">>, <<"Recent", "work", "on", "error", "correction">>}

WorkflowInputs ==
    [messages : {<<HumanMessage(q)>> : q \in WorkflowQueries},
     iteration : 0..MaxStartIteration,
     needs_research : BOOLEAN,
     research_done : BOOLEAN]

research_result ==
    AIMessage(<<"[Research completed]", "Found", "relevant", "information",
                "about", "the", "topic", ".">>, <<>>)

Entered(name, state) == [node |-> name, state |-> state]

\* Conditional routing function after analyze
should_research_unconditional(state) == "research"

should_research(state) ==
    IF state.needs_research /\ ~state.research_done THEN "research" ELSE "respond"

\* main: app.invoke(input)
WorkflowInvoke ==
    /\ wf_node = "script"
    /\ \E input \in WorkflowInputs :
          /\ wf_state' = input
          /\ wf_trace' = <<Entered("invoke", input)>>
    /\ wf_node' = "analyze"
    /\ UNCHANGED nonworkflow_vars

\* Node analyze (analyze_query) when llm.invoke returns, then the conditional edge
AnalyzeQuery ==
    /\ wf_node = "analyze"
    /\ \E content \in AnalysisContents :
          wf_state' = [wf_state EXCEPT
                          !.needs_research = In("yes", Lower(content)),
                          !.iteration = @ + 1]
    /\ wf_node' = should_research(wf_state')
    /\ wf_trace' = Append(wf_trace, Entered("analyze", wf_state))
    /\ UNCHANGED nonworkflow_vars

\* Node analyze when llm.invoke raises: app.invoke raises, main has no handler
AnalyzeQueryRaises ==
    /\ wf_node = "analyze"
    /\ wf_node' = "raised"
    /\ UNCHANGED <<wf_state, wf_trace>>
    /\ UNCHANGED nonworkflow_vars

\* Node research (research_node), then the edge to respond
ResearchNode ==
    /\ wf_node = "research"
    /\ wf_state' = [wf_state EXCEPT
                       !.messages = @ \o <<research_result>>,
                       !.research_done = TRUE,
                       !.iteration = @ + 1]
    /\ wf_node' = "respond"
    /\ wf_trace' = Append(wf_trace, Entered("research", wf_state))
    /\ UNCHANGED nonworkflow_vars

\* Node respond (generate_response) when llm.invoke returns, then the edge to END
Respond ==
    /\ wf_node = "respond"
    /\ \E content \in WorkflowContents :
          wf_state' = [wf_state EXCEPT
                          !.messages = @ \o <<AIMessage(content, <<>>)>>,
                          !.iteration = @ + 1]
    /\ wf_node' = "END"
    /\ wf_trace' = Append(wf_trace, Entered("respond", wf_state))
    /\ UNCHANGED nonworkflow_vars

\* Node respond when llm.invoke raises
RespondRaises ==
    /\ wf_node = "respond"
    /\ wf_node' = "raised"
    /\ UNCHANGED <<wf_state, wf_trace>>
    /\ UNCHANGED nonworkflow_vars

WorkflowNext ==
    \/ WorkflowInvoke
    \/ AnalyzeQuery
    \/ AnalyzeQueryRaises
    \/ ResearchNode
    \/ Respond
    \/ RespondRaises

----------------------------------------------------------------------------
(* langgraph_examples/04_composition.py: validate -> analyze -> simple | complex, *)
(* or validate -> error                                                          *)

\* A str is the sequence of its characters where its length matters
Test1Input ==
    <<"E", "x", "p", "l", "a", "i", "n", " ", "t", "h", "e", " ", "i", "m",
      "p", "l", "i", "c", "a", "t", "i", "o", "n", "s", " ", "o", "f", " ",
      "q", "u", "a", "n", "t", "u", "m", " ", "c", "o", "m", "p", "u", "t",
      "i", "n", "g", " ", "o", "n", " ", "m", "o", "d", "e", "r", "n", " ",
      "c", "r", "y", "p", "t", "o", "g", "r", "a", "p", "h", "y", " ", "a",
      "n", "d", " ", "d", "a", "t", "a", " ", "s", "e", "c", "u", "r", "i",
      "t", "y">>

UserInputs ==
    { Test1Input,
      <<"H", "i">>,
      <<" ", " ", "H", "i", " ", " ">>,
      <<" ", " ", " ", " ", " ">>,
      <<" ", "a", "b", "c", "d">>,
      <<"H", "e", "l", "l", "o">> }

\* The input of app.invoke; processing_steps and error may already hold something
CompositionInputs ==
    [messages : {<<>>},
     user_input : UserInputs,
     analysis : {[key \in {} |-> ""]},
     processing_steps : {<<>>, <<"received">>},
     final_output : {<<>>},
     error : {"", "Upstream failure"}]

\* The complexity named in analysis_result.content
ComplexityReplies == {"simple", "moderate", "complex"}

\* response.content of process_simple and process_complex
CompositionContents == {<<"Quantum", "computers", "break", "RSA">>, <<"Hello", "!">>}

Max(S) == CHOOSE x \in S : \A y \in S : y <= x

\* str.strip(): the whitespace at both ends is dropped
strip(text) ==
    LET keep == {i \in 1..Len(text) :
                    text[i] \notin {" ", "\t", "\n", "\r", "\f"} \cup DOMAIN CodePoint}
    IN IF keep = {} THEN <<>> ELSE SubSeq(text, Min(keep), Max(keep))

Step(name, detail) == [node |-> name, detail |-> detail]

\* Node 1
validate_input_nostrip(state) ==
    IF Len(state.user_input) < 5
    THEN [state EXCEPT !.error = "Input too short",
                       !.processing_steps = @ \o <<"validation_failed">>]
    ELSE [state EXCEPT !.processing_steps = @ \o <<"validation_passed">>]

validate_input(state) ==
    IF Len(strip(state.user_input)) < 5
    THEN [state EXCEPT !.error = "Input too short",
                       !.processing_steps = @ \o <<"validation_failed">>]
    ELSE [state EXCEPT !.processing_steps = @ \o <<"validation_passed">>]

\* Node 2, after llm.invoke returned: the reply is not used
analyze_content(state) ==
    [state EXCEPT
        !.analysis = [topic |-> "technology", sentiment |-> "positive",
                      complexity |-> "moderate"],
        !.processing_steps = @ \o <<"analysis_complete">>]

\* Nodes 3a (name "simple") and 3b (name "complex"), after llm.invoke returned
process(name, state, content) ==
    [state EXCEPT
        !.final_output = content,
        !.processing_steps =
            @ \o <<IF name = "simple" THEN "simple_processing"
                                      ELSE "complex_processing">>]

\* Node 4
handle_error(state) ==
    [state EXCEPT
        !.final_output = <<"Error: ", state.error, ". Please provide valid input.">>,
        !.processing_steps = @ \o <<"error_handled">>]

route_after_validation(state) ==
    IF state.error # "" THEN "error" ELSE "analyze"

route_after_analysis(state) ==
    LET complexity == IF "complexity" \in DOMAIN state.analysis
                      THEN state.analysis.complexity ELSE "simple"
    IN IF complexity = "complex" THEN "complex" ELSE "simple"

\* main: app.invoke(input)
CompositionInvoke ==
    /\ comp_node = "script"
    /\ \E input \in CompositionInputs :
          /\ comp_state' = input
          /\ comp_trace' = <<Step("invoke", input)>>
    /\ comp_node' = "validate"
    /\ UNCHANGED noncomposition_vars

\* Node validate, then the conditional edge
Validate ==
    /\ comp_node = "validate"
    /\ comp_state' = validate_input(comp_state)
    /\ comp_node' = route_after_validation(comp_state')
    /\ comp_trace' = Append(comp_trace, Step("validate", <<>>))
    /\ UNCHANGED noncomposition_vars

\* Node analyze when llm.invoke returns, then the conditional edge
Analyze ==
    /\ comp_node = "analyze"
    /\ \E analysis_result \in ComplexityReplies :
          comp_trace' = comp_trace \o <<Step("llm.invoke", analysis_result),
                                        Step("analyze", <<>>)>>
    /\ comp_state' = analyze_content(comp_state)
    /\ comp_node' = route_after_analysis(comp_state')
    /\ UNCHANGED noncomposition_vars

\* Node analyze when llm.invoke raises: app.invoke raises, main has no handler
AnalyzeRaises ==
    /\ comp_node = "analyze"
    /\ comp_node' = "raised"
    /\ comp_trace' = Append(comp_trace, Step("llm.invoke", "raised"))
    /\ UNCHANGED comp_state
    /\ UNCHANGED noncomposition_vars

\* Node simple or complex when llm.invoke returns, then the edge to END
Process ==
    /\ comp_node \in {"simple", "complex"}
    /\ \E content \in CompositionContents :
          /\ comp_state' = process(comp_node, comp_state, content)
          /\ comp_trace' = comp_trace \o <<Step("llm.invoke", content),
                                           Step(comp_node, <<>>)>>
    /\ comp_node' = "END"
    /\ UNCHANGED noncomposition_vars

\* Node simple or complex when llm.invoke raises
ProcessRaises ==
    /\ comp_node \in {"simple", "complex"}
    /\ comp_node' = "raised"
    /\ comp_trace' = Append(comp_trace, Step("llm.invoke", "raised"))
    /\ UNCHANGED comp_state
    /\ UNCHANGED noncomposition_vars

\* Node error, then the edge to END
HandleError ==
    /\ comp_node = "error"
    /\ comp_state' = handle_error(comp_state)
    /\ comp_node' = "END"
    /\ comp_trace' = Append(comp_trace, Step("error", <<>>))
    /\ UNCHANGED noncomposition_vars

CompositionNext ==
    \/ CompositionInvoke
    \/ Validate
    \/ Analyze
    \/ AnalyzeRaises
    \/ Process
    \/ ProcessRaises
    \/ HandleError

----------------------------------------------------------------------------
(* Specifications *)

Next ==
    \/ ForNext /\ UNCHANGED nonloop_vars
    \/ ForExhausted /\ UNCHANGED nonloop_vars
    \/ ModelReturns /\ UNCHANGED nonloop_vars
    \/ ModelRaises /\ UNCHANGED nonloop_vars
    \/ Dispatch /\ UNCHANGED nonloop_vars
    \/ ToolReturns /\ UNCHANGED nonloop_vars
    \/ ToolRaises /\ UNCHANGED nonloop_vars
    \/ EndToolCalls /\ UNCHANGED nonloop_vars

\* One execution of run_agent_loop.
Spec == Init /\ [][Next]_vars

\* The loop keeps running: every enabled step is eventually taken (each model
\* call and each tool invocation comes back, by returning or by raising).
FairSpec == Spec /\ WF_vars(Next)

\* Two executions in a row on the same inputs.
SpecReplay == Init /\ [][ReplayNext]_vars

\* The other programs start with run_agent_loop not in use.
Start ==
    /\ Init
    /\ variant = "simple"
    /\ max_iterations = 1

\* main of 05_memory.py
SpecMemory == Start /\ [][MemoryNext]_vars

\* main of 03_agent_with_tools.py
SpecAgent == Start /\ [][AgentNext]_vars

\* the scripts of 05_langgraph_stategraph.py and 06_persistence_and_hitl.py
SpecGraph == Start /\ [][GraphNext]_vars

\* The scripts keep running: a node that is due runs (returning or raising)
\* and the script's next statement is executed.
FairSpecGraph == SpecGraph /\ WF_vars(GraphNext)

\* a HistorySummarizer of 02_middleware_example.py, constructed and called once
SpecSummarizer == Start /\ [][SummarizerNext]_vars

\* main of 06_langgraph_example.py
SpecSteps == Start /\ [][StepsNext]_vars

\* The graph runtime runs the next node as long as there is one, and every
\* model call comes back, by returning or by raising.
FairSpecSteps == SpecSteps /\ WF_vars(StepsNext)

\* one app.invoke of langgraph_examples/02_workflow.py
SpecWorkflow == Start /\ [][WorkflowNext]_vars

\* one app.invoke of langgraph_examples/04_composition.py
SpecComposition == Start /\ [][CompositionNext]_vars

----------------------------------------------------------------------------
(* Vocabulary of the properties *)

AIIndices == {a \in 1..Len(messages) : messages[a].type = "ai"}

\* Positions after `a` of the tool results that answer request `id`.
ResultsAfter(a, id) ==
    {j \in (a + 1)..Len(messages) :
        messages[j].type = "tool" /\ messages[j].tool_call_id = id}

\* Position of the last model reply in the transcript (0 before the first).
LastAI == IF AIIndices = {} THEN 0
          ELSE CHOOSE a \in AIIndices : \A b \in AIIndices : b <= a

Contains(text, token) == \E i \in 1..Len(text) : text[i] = token

AllRegistered(r) ==
    \A i \in 1..Len(r.tool_calls) : Registered(variant, r.tool_calls[i].name)

\* The messages after the last reply are tool results for its first n
\* requests, one each, in request order.
TailAnswers(n) ==
    /\ Len(messages) = LastAI + n
    /\ \A i \in 1..n :
         /\ messages[LastAI + i].type = "tool"
         /\ messages[LastAI + i].tool_call_id = response.tool_calls[i].id

Terminated == pc \in {"returned", "raised"}

----------------------------------------------------------------------------
(* Properties *)

\* C1: one execution of run_agent_loop with max_iterations = N >= 1 issues at
\* most N model calls.
C1_AtMostNModelCalls == model_calls <= max_iterations

C1_Witness ==
    /\ max_iterations >= 2
    /\ model_calls = max_iterations
    /\ pc = "returned"
    /\ result = Sentinel(variant)

\* C2 (as claimed): at every model call after the first, each tool request of
\* every earlier reply is followed in the transcript by exactly one tool
\* result carrying its id, whether or not the requested name is registered.
C2_EveryRequestAnswered ==
    (pc = "invoke" /\ model_calls > 1) =>
        \A a \in AIIndices : \A i \in 1..Len(messages[a].tool_calls) :
            Cardinality(ResultsAfter(a, messages[a].tool_calls[i].id)) = 1

\* C3: when a reply carries k requests that all name registered tools, the
\* tool results appended after it answer its requests one each, in request
\* order and with the request's id, and all k are there at the next model
\* call (and when the loop ends on the sentinel).
C3_KResultsInOrder ==
    (LastAI > 0 /\ HasToolCalls(response) /\ AllRegistered(response)) =>
        /\ response = messages[LastAI]
        /\ pc \in {"tools", "tool_invoke", "raised"} /\ exception.kind # "model"
              => TailAnswers(tc_idx - 1)
        /\ pc \in {"for", "invoke", "returned"} \/ exception.kind = "model"
              => TailAnswers(Len(response.tool_calls))

C3_Witness ==
    /\ pc = "invoke"
    /\ model_calls = 2
    /\ Len(response.tool_calls) = 2
    /\ AllRegistered(response)
    /\ TailAnswers(2)

\* C4: in the simple variant a request naming none of calculate, get_weather,
\* search_web raises nothing: handling it appends one tool result with the
\* request's id whose text contains the requested name, and leaves the loop
\* at the next request of the reply.
C4_UnknownToolAnswered ==
    /\ [][ (/\ variant = "simple"
            /\ pc = "tools"
            /\ tc_idx <= Len(response.tool_calls)
            /\ ~Registered(variant, response.tool_calls[tc_idx].name))
           => (/\ Len(messages') = Len(messages) + 1
               /\ SubSeq(messages', 1, Len(messages)) = messages
               /\ messages'[Len(messages')].type = "tool"
               /\ messages'[Len(messages')].tool_call_id = response.tool_calls[tc_idx].id
               /\ Contains(messages'[Len(messages')].content,
                           response.tool_calls[tc_idx].name)
               /\ pc' = "tools"
               /\ tc_idx' = tc_idx + 1
               /\ exception' = NoException
               /\ tool_invocations' = tool_invocations) ]_vars
    /\ [](variant = "simple" =>
            \A a \in AIIndices : \A i \in 1..Len(messages[a].tool_calls) :
                ~Registered(variant, messages[a].tool_calls[i].name)
                    => exception.id # messages[a].tool_calls[i].id)

C4_Witness ==
    /\ variant = "simple"
    /\ pc = "invoke"
    /\ model_calls = 2
    /\ \E j \in 1..Len(messages) :
         /\ messages[j].type = "tool"
         /\ messages[j].content = <<"Unknown tool: ", "send_email">>

\* C5 (as claimed): when each of the first N = max_iterations replies carries
\* a tool request, the run makes N model calls, handles the requests of the
\* N-th reply and returns the sentinel instead of raising.
C5_ExhaustionReturnsSentinel ==
    (/\ Terminated
     /\ Cardinality(AIIndices) = max_iterations
     /\ \A a \in AIIndices : HasToolCalls(messages[a]))
    => (/\ pc = "returned"
        /\ result = Sentinel(variant)
        /\ model_calls = max_iterations
        /\ tc_idx = Len(response.tool_calls) + 1)

\* C6: when the first j replies carry tool requests and reply j+1 carries
\* none, the run has made exactly j+1 model calls and returns the content of
\* reply j+1; with j = 0 no tool has been invoked.
C6_FinalReplyReturned ==
    (LastAI > 0 /\ ~HasToolCalls(messages[LastAI])) =>
        /\ pc = "returned"
        /\ result = messages[LastAI].content
        /\ LastAI = Len(messages)
        /\ model_calls = Cardinality(AIIndices)
        /\ \A a \in AIIndices \ {LastAI} : HasToolCalls(messages[a])
        /\ Cardinality(AIIndices) = 1 => tool_invocations = <<>>

C6_Witness ==
    /\ pc = "returned"
    /\ model_calls = 2
    /\ ~HasToolCalls(messages[LastAI])
    /\ result = messages[LastAI].content
    /\ result # messages[2].content
    /\ Len(tool_invocations) >= 1

\* C7 (as claimed): a tool invocation that raises is caught at the call site:
\* a tool result with the request's id is appended and the loop is not left
\* by the exception.
C7_ToolFailureCaught ==
    exception.kind = "tool" =>
        /\ pc # "raised"
        /\ \E j \in 1..Len(messages) :
             messages[j].type = "tool" /\ messages[j].tool_call_id = exception.id

\* C8: a failed model call leaves run_agent_loop as an exception: no value is
\* returned, and no model call or tool invocation follows.
C8_ModelFailurePropagates ==
    /\ [](exception.kind = "model" =>
            /\ pc = "raised"
            /\ result = NoResult
            /\ inflight = {})
    /\ [][exception.kind = "model" =>
            UNCHANGED <<model_calls, tool_invocations, messages, result>>]_vars

C8_Witness ==
    /\ exception.kind = "model"
    /\ pc = "raised"
    /\ model_calls = 2
    /\ Len(tool_invocations) >= 1

\* C9 (as claimed): whatever the model replies and whatever the tools do, the
\* run delivers to its caller the content of a reply without tool requests or
\* the sentinel, and nothing else.
C9_OnlyTextOrSentinel ==
    exception.kind # "model" =>
        /\ pc # "raised"
        /\ pc = "returned" =>
             \/ result = Sentinel(variant)
             \/ \E a \in AIIndices :
                  ~HasToolCalls(messages[a]) /\ result = messages[a].content

\* C10: the requests of a reply are invoked one at a time in the order of the
\* reply: when the invocation for a request starts, every invocation started
\* earlier has returned and its result is in the transcript, and never are two
\* external calls (model calls, tool invocations) in progress together.
C10_StrictlySequential ==
    /\ Cardinality(inflight) <= 1
    /\ pc = "invoke" => inflight = {<<"model", model_calls>>}
    /\ pc = "tool_invoke" => inflight = {<<"tool", response.tool_calls[tc_idx].id>>}
    /\ pc \notin {"invoke", "tool_invoke"} => inflight = {}
    /\ \A i, j \in 1..Len(tool_invocations) :
         i < j => tool_invocations[i] < tool_invocations[j]
    /\ pc = "tool_invoke" =>
         /\ tool_invocations[Len(tool_invocations)] = response.tool_calls[tc_idx].id
         /\ \A i \in 1..(Len(tool_invocations) - 1) :
              Cardinality(ResultsAfter(1, tool_invocations[i])) = 1

C10_Witness ==
    /\ pc = "tool_invoke"
    /\ tc_idx = 2
    /\ Len(tool_invocations) = 2
    /\ Cardinality(ResultsAfter(1, tool_invocations[1])) = 1

\* The three states of the loop, and "failed" for an exception that left it.
\* The loop head counts as awaiting the model while an iteration is left, and
\* as the end of the dispatch once the cap is reached.
Phase ==
    CASE pc = "invoke" -> "awaiting-model-reply"
      [] pc = "for" /\ InRange(iteration, max_iterations) -> "awaiting-model-reply"
      [] pc = "for" /\ ~InRange(iteration, max_iterations) -> "dispatching-tools"
      [] pc \in {"tools", "tool_invoke"} -> "dispatching-tools"
      [] pc = "returned" -> "done"
      [] pc = "raised" -> "failed"

\* C11 (as claimed): the loop starts in awaiting-model-reply; from there it
\* goes to done on a reply without tool requests and to dispatching-tools
\* otherwise; from dispatching-tools it goes back to awaiting-model-reply when
\* iterations remain and to done at the cap; done is absorbing; the only
\* other way to stop is a model-call failure.
C11_ThreeStateMachine ==
    /\ Phase = "awaiting-model-reply"
    /\ [][ /\ Phase = "awaiting-model-reply" =>
              \/ Phase' = "awaiting-model-reply"
              \/ Phase' = "done" /\ ~HasToolCalls(response')
              \/ Phase' = "dispatching-tools" /\ HasToolCalls(response')
              \/ Phase' = "failed" /\ exception'.kind = "model"
           /\ Phase = "dispatching-tools" =>
              \/ Phase' = "dispatching-tools"
              \/ Phase' = "awaiting-model-reply" /\ InRange(iteration', max_iterations)
              \/ Phase' = "done" /\ ~InRange(iteration, max_iterations)
           /\ Phase \notin {"done", "failed"} ]_vars

\* C12: the transcript starts as the one user message holding the query and
\* only grows at its end: in every step the old transcript is a prefix of the
\* new one.
C12_TranscriptAppendOnly ==
    /\ messages = <<HumanMessage(user_query)>>
    /\ [](messages[1] = HumanMessage(user_query))
    /\ [][ /\ Len(messages') >= Len(messages)
           /\ SubSeq(messages', 1, Len(messages)) = messages ]_vars

C12_Witness ==
    /\ pc = "returned"
    /\ Len(messages) >= 5
    /\ messages[1] = HumanMessage(user_query)
    /\ messages[Len(messages)].type = "ai"

\* C13: when every model call and every tool invocation returns (none
\* raises), the loop eventually returns, whatever the replies are.
C13_Terminates == <>(pc = "returned" \/ exception # NoException)

C13_Witness ==
    /\ pc = "returned"
    /\ max_iterations = 2
    /\ model_calls = 2
    /\ \A a \in AIIndices : HasToolCalls(messages[a])
    /\ Len(tool_invocations) = 2

\* C15: the text of a reply that also carries tool requests is dropped: a
\* returned value is the sentinel, or the content of the last reply, which
\* carries no tool requests and comes after every reply that carried some.
C15_ToolReplyTextDropped ==
    pc = "returned" =>
        \/ /\ result = Sentinel(variant)
           /\ \A a \in AIIndices : HasToolCalls(messages[a])
        \/ /\ LastAI > 0
           /\ ~HasToolCalls(messages[LastAI])
           /\ result = messages[LastAI].content
           /\ \A a \in AIIndices \ {LastAI} : HasToolCalls(messages[a])

C15_Witness ==
    /\ pc = "returned"
    /\ \E a \in AIIndices :
         /\ HasToolCalls(messages[a])
         /\ messages[a].content # <<>>
         /\ messages[a].content # result
    /\ result = messages[LastAI].content

\* The requests of the transcript the loop has decided on, as <<position of
\* the reply, position in the reply>>.
Decided ==
    {ai \in AIIndices \X (1..MaxRequests + 1) :
        /\ ai[2] <= Len(messages[ai[1]].tool_calls)
        /\ \/ ai[1] < LastAI
           \/ ai[2] < tc_idx
           \/ ai[2] = tc_idx /\ (pc = "tool_invoke" \/ exception.kind = "tool")}

Invoked(id) == \E k \in 1..Len(tool_invocations) : tool_invocations[k] = id

\* C16: the tools the loop dispatches to are the same throughout a run: two
\* requests with the same name are both handed to a tool or both not, and
\* with the same arguments as well they get the same result.
C16_RegistryFixed ==
    \A p, q \in Decided :
        LET x == messages[p[1]].tool_calls[p[2]]
            y == messages[q[1]].tool_calls[q[2]]
        IN  x.name = y.name =>
              /\ Invoked(x.id) <=> Invoked(y.id)
              /\ Invoked(x.id) <=> Registered(variant, x.name)
              /\ x.args = y.args =>
                   \A i \in ResultsAfter(1, x.id), j \in ResultsAfter(1, y.id) :
                       messages[i].content = messages[j].content

C16_Witness ==
    /\ pc = "returned"
    /\ \E p, q \in Decided :
         /\ p # q
         /\ messages[p[1]].tool_calls[p[2]].name = messages[q[1]].tool_calls[q[2]].name
         /\ Invoked(messages[p[1]].tool_calls[p[2]].id)
         /\ Invoked(messages[q[1]].tool_calls[q[2]].id)
         /\ p[1] # q[1]

\* C14: a second execution given the same query, the same max_iterations and
\* a model that answers what it is shown as it did in the first ends as the
\* first did: the same returned text (or the same exception), as many model
\* calls and as many tool invocations, and the same transcript; while it runs,
\* its transcript is a beginning of the first execution's and every model
\* call is shown a transcript that the first execution showed.
C14_ReplayAgrees ==
    run = 2 =>
        /\ Len(messages) <= Len(first_run.messages)
        /\ messages = SubSeq(first_run.messages, 1, Len(messages))
        /\ model_calls <= first_run.model_calls
        /\ Len(tool_invocations) <= first_run.tool_invocations
        /\ pc = "invoke" => \E k \in 1..Len(script) : script[k].shown = messages
        /\ pc \in {"returned", "raised"} =>
              /\ result = first_run.result
              /\ exception = first_run.exception
              /\ model_calls = first_run.model_calls
              /\ Len(tool_invocations) = first_run.tool_invocations
              /\ messages = first_run.messages

C14_Witness ==
    /\ run = 2
    /\ pc = "returned"
    /\ model_calls = 3
    /\ Len(tool_invocations) = 2
    /\ Len(messages) = 6
    /\ result = first_run.result
    /\ result # Sentinel(variant)

\* C17: the conversation store is owned by the caller and not shared by the
\* process: the history example 3 gets when it asks for a session id holds
\* nothing that example 1 stored under that id.
C17_StoreOwnedByCaller ==
    mem_pc = "example_3" =>
        \A session_id \in SessionIds :
            LET asked == get_session_history(session_id)[session_id]
            IN \A i \in 1..Len(asked) : \A k \in 1..Len(Example1Inputs) :
                  asked[i].content # Example1Inputs[k]

\* C18: in simple_agent the model decides which tools are used: the tools
\* invoked and their arguments are determined by the analysis reply, so two
\* executions that got the same analysis reply invoke the same tools with the
\* same arguments.
C18_ModelDecidesTools ==
    (/\ agent_run = AgentRuns
     /\ agent_pc \in {"final", "returned"}
     /\ analysis = previous.analysis) =>
        tool_log = previous.tool_log

\* The rank of a product keyword in the fixed order of C19
ProductRank(p) ==
    CASE p = "keyboard" -> 1 [] p = "mouse" -> 2 [] p = "monitor" -> 3
      [] p = "laptop" -> 4 [] OTHER -> 0

\* C19: in one execution of simple_agent, search_product is invoked once per
\* product keyword contained in the lower-cased query, in the order keyboard,
\* mouse, monitor, laptop; calculate_discount is invoked at most once, only
\* after at least one search_product result exists, only when the query
\* contains "discount" and an "N%" token, and with the price of the first
\* search result; two model calls are made, the analysis before any tool and
\* the final answer after all of them.
C19_KeywordRouting ==
    /\ agent_pc \in {"main", "analysis", "tools"} => tool_log = <<>>
    /\ agent_pc \in {"analysis", "tools"} => agent_model_calls = 1
    /\ agent_pc \in {"final", "returned"} => agent_model_calls = 2
    /\ agent_model_calls <= 2
    /\ agent_pc \in {"final", "returned"} =>
        LET searches == {i \in 1..Len(tool_log) : tool_log[i].name = "search_product"}
            discounts == {i \in 1..Len(tool_log) : tool_log[i].name = "calculate_discount"}
        IN /\ searches \cup discounts = 1..Len(tool_log)
           /\ \A p \in {"keyboard", "mouse", "monitor", "laptop"} :
                Cardinality({i \in searches : tool_log[i].args.name = p}) =
                    IF In(p, Lower(agent_query)) THEN 1 ELSE 0
           /\ \A i \in searches : ProductRank(tool_log[i].args.name) > 0
           /\ \A i \in searches : \A j \in searches :
                i < j => ProductRank(tool_log[i].args.name)
                            < ProductRank(tool_log[j].args.name)
           /\ Cardinality(discounts) <= 1
           /\ \A d \in discounts :
                /\ d > 1
                /\ \A i \in searches : i < d
                /\ In("discount", Lower(agent_query))
                /\ \E i \in 1..Len(agent_query) : \E j \in i..Len(agent_query) :
                      /\ Chars(SubSeq(agent_query, i, j)) \subseteq DOMAIN DigitValue
                      /\ j < Len(agent_query)
                      /\ SubSeq(agent_query, j + 1, j + 1) = "%"
                      /\ i > 1 => SubSeq(agent_query, i - 1, i - 1) \notin DOMAIN DigitValue
                      /\ \A k \in 1..(j - 1) : SubSeq(agent_query, k, k + 1) \notin
                            {digit \o "%" : digit \in DOMAIN DigitValue}
                      /\ tool_log[d].args.discount_percent = int(SubSeq(agent_query, i, j))
                /\ tool_log[d].args.price = price_of[tool_log[1].args.name]
                /\ In(tool_log[d].args.price, results[1])

C19_Witness ==
    /\ agent_pc = "returned"
    /\ agent_model_calls = 2
    /\ Len(tool_log) = 3
    /\ agent_query = "Compare LAPTOP and Mouse at a 20% Discount"
    /\ tool_log[1].args.name = "mouse"
    /\ tool_log[2].args.name = "laptop"
    /\ tool_log[3].name = "calculate_discount"
    /\ tool_log[3].args = [price |-> "$49", discount_percent |-> 20]
    /\ results[3] = "Discount calculation: $39.20"

\* The run is at END with a model reply without tool calls as last message
GraphEnded ==
    /\ node = "END"
    /\ state_messages[Len(state_messages)].type = "ai"
    /\ state_messages[Len(state_messages)].tool_calls = <<>>

\* C20: in the graph agent, after the agent node has added the model's reply
\* the tools node is next exactly when that reply (the last message) carries a
\* tool call, and otherwise the run is at END with the reply as last message;
\* a run of the tools node adds one tool message per tool call of the last
\* message, in call order and with the call's id, and the agent node is next;
\* once the run is at END it stays there and nothing is added any more, also
\* when the script invokes the thread again.  Every run comes to the model's
\* reply without tool calls and with it to END, unless a node raised or the
\* script ended with the thread paused before tools: the runs in which the
\* model never gave such a reply.
C20_GraphRouting ==
    /\ [][ LET n == Len(state_messages)
                added == Len(state_messages') - n
            IN /\ (node = "agent" /\ node' # "raised") =>
                    /\ added = 1
                    /\ SubSeq(state_messages', 1, n) = state_messages
                    /\ state_messages'[n + 1].type = "ai"
                    /\ (node' = "tools") <=> (Len(state_messages'[n + 1].tool_calls) >= 1)
                    /\ (node' = "END") <=> (Len(state_messages'[n + 1].tool_calls) = 0)
               /\ (node = "tools" /\ node' # "tools" /\ node' # "raised") =>
                    /\ node' = "agent"
                    /\ added = Len(state_messages[n].tool_calls)
                    /\ SubSeq(state_messages', 1, n) = state_messages
                    /\ \A i \in 1..added :
                          /\ state_messages'[n + i].type = "tool"
                          /\ state_messages'[n + i].tool_call_id =
                                state_messages[n].tool_calls[i].id
               /\ (node = "tools" /\ node' = "tools") => state_messages' = state_messages
               /\ node = "END" => (node' = "END" /\ state_messages' = state_messages)
          ]_vars
    /\ [](node = "END" => GraphEnded)
    /\ <>(GraphEnded \/ node = "raised" \/ (interrupted /\ invokes = 2))

C20_Witness ==
    /\ graph_variant = "hitl"
    /\ node = "END"
    /\ invokes = 2
    /\ Len(state_messages) = 5
    /\ Len(state_messages[2].tool_calls) = 2
    /\ state_messages[3].type = "tool"
    /\ state_messages[3].tool_call_id = state_messages[2].tool_calls[1].id
    /\ state_messages[4].tool_call_id = state_messages[2].tool_calls[2].id
    /\ state_messages[3].content = <<"Results for: ", "LangGraph">>
    /\ state_messages[5].type = "ai"
    /\ state_messages[5].tool_calls = <<>>

\* C21: a tool call naming a tool that is absent from tools_by_name is
\* recovered in call_tools: the run never fails at a call whose name is not
\* a key of tools_by_name.
C21_UnknownToolRecovered ==
    (node = "raised" /\ state_messages # <<>>) =>
        LET calls == state_messages[Len(state_messages)].tool_calls
        IN ~ \E i \in 1..Len(calls) :
                /\ calls[i].name \notin DOMAIN tools_by_name
                /\ \A j \in 1..(i - 1) : Invocable(calls[j])

\* C22: with interrupt_before=["tools"] the run pauses before any tool call:
\* a tool is invoked only in a later app.invoke than the one in which the
\* model requested it, after an interrupt and then a resume; the tools node
\* is never about to run unless the script has just resumed the thread.
C22_PauseBeforeTools ==
    graph_variant = "hitl" =>
        /\ \A t \in 1..Len(graph_trace) :
              graph_trace[t].event = "tool" =>
                \E r \in 1..t : \E i \in r..t : \E u \in i..t :
                    /\ graph_trace[r].event = "request"
                    /\ graph_trace[r].id = graph_trace[t].id
                    /\ graph_trace[r].invoke < graph_trace[t].invoke
                    /\ graph_trace[i].event = "interrupt"
                    /\ graph_trace[i].invoke = graph_trace[r].invoke
                    /\ graph_trace[u].event = "resume"
                    /\ graph_trace[u].invoke = graph_trace[t].invoke
        /\ (node = "tools" /\ ~interrupted) =>
              graph_trace[Len(graph_trace)].event = "resume"

C22_Witness ==
    /\ graph_variant = "hitl"
    /\ node = "END"
    /\ invokes = 2
    /\ Len(SelectSeq(graph_trace, LAMBDA ev : ev.event = "tool")) = 2
    /\ graph_trace[1].event = "request"
    /\ graph_trace[3].event = "interrupt"
    /\ graph_trace[4].event = "resume"
    /\ graph_trace[5].event = "tool"

\* C23: in the human-in-the-loop example, once the first invoke was
\* interrupted and the resuming app.invoke(None) has returned, the last
\* message of the state is a model reply without tool calls.
C23_ResumeCompletes ==
    (/\ graph_variant = "hitl"
     /\ invokes = 2
     /\ (node = "END" \/ interrupted)) =>
        /\ state_messages[Len(state_messages)].type = "ai"
        /\ state_messages[Len(state_messages)].tool_calls = <<>>

\* C29: between chat() calls of example_2_manual_memory, also after a chat()
\* call whose model call raised, conversation_history is the system message
\* followed by complete (user, assistant) pairs: its length is odd and the
\* roles after the system message alternate user, assistant.
C29_HistoryInPairs ==
    (mem_pc \in {"example_2", "raised"} /\ conversation_history # <<>> /\ ~InChat) =>
        /\ conversation_history[1].role = "system"
        /\ Len(conversation_history) % 2 = 1
        /\ \A i \in 2..Len(conversation_history) :
              conversation_history[i].role =
                  IF i % 2 = 0 THEN "user" ELSE "assistant"

----------------------------------------------------------------------------
(* C24 *)

\* The last n elements of list, all of it when it has no more than n
LastN(list, n) ==
    IF Len(list) <= n THEN list ELSE SubSeq(list, Len(list) - n + 1, Len(list))

\* C24: after HistorySummarizer.__call__ the "messages" entry holds at most
\* max_messages messages, the last max_messages messages of the input in their
\* original order; an input of at most max_messages messages is left unchanged.
C24_KeepsLastMaxMessages ==
    summ_pc = "called" =>
        /\ Len(input_data) <= max_messages
        /\ input_data = LastN(long_history, max_messages)
        /\ (Len(long_history) <= max_messages => input_data = long_history)

----------------------------------------------------------------------------
(* C25 *)

StepRuns(name) == {i \in 1..Len(step_trace) : step_trace[i].node = name}

\* app.invoke is over: it returned, a call inside generate_response raised, or
\* GraphRecursionError was raised (main catches either exception)
StepsEnded == step_node \in {"END", "raised", "out_of_steps"}

\* The nodes a run needs from initial step_count n when no call raises:
\* process_query, generate_response until step_count is 3 or more, finalize
NodesFrom(n) == IF n >= 1 THEN 3 ELSE 4 - n

\* What the nodes and the conditional edge do, at every point of a run
StepsOrder ==
    \* every node that ran found step_count one above what the node before found
    /\ \A i \in 2..Len(step_trace) :
          step_trace[i].step_count = step_trace[i - 1].step_count + 1
    \* generate_response is run again exactly while step_count is below 3
    /\ \A i \in StepRuns("generate_response") :
          i < Len(step_trace) =>
             (step_trace[i + 1].node = "generate_response"
                 <=> step_trace[i].step_count + 1 < 3)
    \* finalize runs at most once, and only with step_count at 3 or more
    /\ Cardinality(StepRuns("finalize")) <= 1
    /\ \A i \in StepRuns("finalize") : step_trace[i].step_count >= 3
    \* from step_count 0
    /\ (step_node = "END" /\ step_trace[1].step_count = 0) =>
          /\ Cardinality(StepRuns("generate_response")) = 2
          /\ step_state.step_count = 4
          /\ Len(step_state.messages) = 3

\* C25 as the claim states it: for every initial step_count the run ends, each
\* generate_response adds 1 to step_count and is repeated only while
\* step_count < 3, and finalize has run exactly once, with step_count >= 3,
\* when the run is over (a run cut short by an exception raised inside
\* generate_response aside); from step_count 0 generate_response runs twice,
\* the final step_count is 4 and the final state holds 3 messages.
C25_FinalizeOnceFromEveryStart ==
    /\ [](StepsOrder /\ (step_node \in {"END", "out_of_steps"} =>
                            Cardinality(StepRuns("finalize")) = 1))
    /\ <>StepsEnded

\* C25, amended: for every initial step_count the run ends; each
\* generate_response adds 1 to step_count and is repeated only while
\* step_count < 3; finalize runs at most once and only when step_count >= 3.
\* A run returns exactly when the nodes it needs are fewer than the recursion
\* limit, that is from an initial step_count of 5 - RecursionLimit or more,
\* and finalize has then run exactly once; from a lower initial step_count
\* app.invoke raises GraphRecursionError after RecursionLimit nodes, finalize
\* having run as the last of them from 4 - RecursionLimit and not at all from
\* below.  From step_count 0 generate_response runs twice, the final
\* step_count is 4 and the final state holds 3 messages.
C25_TerminatesAfterFinalize ==
    /\ [](/\ StepsOrder
          /\ step_node = "END" =>
                /\ Cardinality(StepRuns("finalize")) = 1
                /\ Len(step_trace) = NodesFrom(step_trace[1].step_count)
                /\ NodesFrom(step_trace[1].step_count) < RecursionLimit
          /\ step_node = "out_of_steps" =>
                /\ Len(step_trace) = RecursionLimit
                /\ NodesFrom(step_trace[1].step_count) >= RecursionLimit
                /\ Cardinality(StepRuns("finalize")) =
                      IF NodesFrom(step_trace[1].step_count) = RecursionLimit
                      THEN 1 ELSE 0
          /\ step_node = "raised" => StepRuns("finalize") = {})
    /\ <>StepsEnded

\* GraphRecursionError from initial step_count -22: 25 nodes ran, finalize
\* was not among them
C25_Witness ==
    /\ step_node = "out_of_steps"
    /\ step_trace[1].step_count = 0 - 22
    /\ Len(step_trace) = RecursionLimit
    /\ Cardinality(StepRuns("generate_response")) = 24
    /\ StepRuns("finalize") = {}
    /\ step_state.step_count = 3

----------------------------------------------------------------------------
(* C26 *)

WorkflowRuns(name) == {i \in 2..Len(wf_trace) : wf_trace[i].node = name}

ResearchRan == WorkflowRuns("research") # {}

\* C26: every run of 02_workflow.py executes analyze first and respond last,
\* each exactly once; research runs at most once, and (research_done being
\* false on entry) exactly when the analysis set needs_research; the final
\* iteration is the initial one plus 2 without research and plus 3 with it;
\* research_done is true at the end exactly when research ran.
C26_AnalyzeResearchRespond ==
    /\ Len(wf_trace) >= 2 => wf_trace[2].node = "analyze"
    /\ Cardinality(WorkflowRuns("analyze")) <= 1
    /\ Cardinality(WorkflowRuns("research")) <= 1
    /\ Cardinality(WorkflowRuns("respond")) <= 1
    /\ wf_node = "END" =>
          LET input == wf_trace[1].state IN
          /\ Cardinality(WorkflowRuns("analyze")) = 1
          /\ Cardinality(WorkflowRuns("respond")) = 1
          /\ wf_trace[Len(wf_trace)].node = "respond"
          /\ wf_state.iteration = input.iteration + (IF ResearchRan THEN 3 ELSE 2)
          /\ ~input.research_done =>
                /\ ResearchRan <=> wf_state.needs_research
                /\ wf_state.research_done <=> ResearchRan

C26_Witness ==
    /\ wf_node = "END"
    /\ ResearchRan
    /\ wf_trace[1].state.iteration = 1
    /\ wf_state.iteration = 4
    /\ wf_state.research_done

----------------------------------------------------------------------------
(* C27, C28 *)

CompositionRuns(names) == {i \in 2..Len(comp_trace) : comp_trace[i].node \in names}

\* The nodes that ran, in order
CompositionPath ==
    LET at == CompositionRuns({"validate", "analyze", "simple", "complex", "error"})
        nth[k \in 0..Cardinality(at)] ==
            IF k = 0 THEN 0 ELSE Min({i \in at : i > nth[k - 1]})
    IN [k \in 1..Cardinality(at) |-> comp_trace[nth[k]].node]

\* C27: an input whose stripped length is below 5 goes validate -> error -> END:
\* analyze, simple and complex never run and no model call is made, the run
\* adds "validation_failed", "error_handled" to processing_steps and ends with
\* final_output "Error: Input too short. Please provide valid input."; an input
\* of stripped length 5 or more, run from an empty error field, never reaches
\* the error node.
C27_ShortInputHandled ==
    comp_node # "script" =>
        LET input == comp_trace[1].detail
            short == Len(strip(input.user_input)) < 5
        IN /\ short =>
                /\ CompositionRuns({"analyze", "simple", "complex", "llm.invoke"}) = {}
                /\ comp_node \in {"validate", "error", "END"}
           /\ (short /\ comp_node = "END") =>
                /\ CompositionPath = <<"validate", "error">>
                /\ comp_state.processing_steps =
                      input.processing_steps \o <<"validation_failed", "error_handled">>
                /\ comp_state.final_output =
                      <<"Error: ", "Input too short", ". Please provide valid input.">>
           /\ (~short /\ input.error = "") =>
                /\ CompositionRuns({"error"}) = {}
                /\ comp_node # "error"

C27_Witness ==
    /\ comp_node = "END"
    /\ comp_trace[1].detail.user_input = <<" ", " ", "H", "i", " ", " ">>
    /\ comp_trace[1].detail.processing_steps = <<"received">>
    /\ comp_state.processing_steps = <<"received", "validation_failed", "error_handled">>

\* C28: the routing after analyze depends on the complexity analysis: a run whose
\* analysis reply names the input complex goes through the complex node, and
\* its processing_steps ends with "complex_processing".
C28_ComplexRouted ==
    (/\ comp_node = "END"
     /\ \E i \in CompositionRuns({"llm.invoke"}) :
           /\ comp_trace[i].detail = "complex"
           /\ comp_trace[i + 1].node = "analyze") =>
        comp_state.processing_steps[Len(comp_state.processing_steps)]
            = "complex_processing"

====
